---- MODULE Spec2Model ----
(***************************************************************************)
(* Model of the candidate progress widget (UserProgress) of the Mentorque  *)
(* platform front-end: the status snapshot it holds, the list of scheduled *)
(* calls it is given, the next-call computation of its useMemo, and the    *)
(* loadStatus / handleBookCall exchanges that replace the snapshot.        *)
(*                                                                         *)
(* JavaScript values are encoded as strings so that one field can hold     *)
(* "true", "false" or "undefined" (a flag missing from the JSON), and a    *)
(* completedAt field can hold "null" or a timestamp.  null objects (the    *)
(* status before the first response, a nextCall that was not found) are    *)
(* the empty tuple.  Objects are records; an optional property is a field  *)
(* that is in the record's DOMAIN or not.  The icon of a milestone, a      *)
(* component reference that only the markup uses, is left out.             *)
(***************************************************************************)
EXTENDS Integers, Sequences, FiniteSets, Bags, TLC

\* ---------------------------------------------------------------- bounds

\* The size of the input: the fields of a snapshot that differ from a fresh
\* candidate's (every flag false, no call completed) and the calls in the
\* scheduledCalls prop are together at most MaxSet.
MaxSet == 5

\* At most MaxAbsent flags of a snapshot are missing from the JSON.
MaxAbsent == 1

\* When the milestone flags of a snapshot are left free, at most MaxStageSet
\* of its other fields and of the scheduled calls are set.
MaxStageSet == 2

\* Between the fetch of the held snapshot and a re-fetch after a booking,
\* at most MaxDelta fields of the backend record have changed.
MaxDelta == 1

\* The scheduled times of a status response are among MaxTime instants.
MaxTime == 2

\* ------------------------------------------------------- JavaScript values

Null == <<>>

\* JavaScript truthiness of an encoded value.
Truthy(v) == v \notin {"false", "undefined", "null", ""}

\* Boolean(v)
ToBoolean(v) == Truthy(v)

\* a && b on encoded values: a when a is falsy, else b.
JsAnd(a, b) == IF Truthy(a) THEN b ELSE a

\* Array.prototype.includes on a list of numbers.
\* Includes as it would be if only the first element were looked at.
IncludesFirst(list, n) == Len(list) > 0 /\ list[1] = n

Includes(list, n) == \E i \in 1..Len(list) : list[i] = n

\* Array.prototype.join on a list of strings.
RECURSIVE Join(_, _)
Join(strs, sep) ==
  IF Len(strs) = 0 THEN ""
  ELSE IF Len(strs) = 1 THEN strs[1]
  ELSE strs[1] \o sep \o Join(Tail(strs), sep)

\* ----------------------------------------------------------- UserStatus

MILESTONES ==
  << [key |-> "orientation", label |-> "Orientation Complete"],
     [key |-> "resumeRebuilding", label |-> "Resume Rebuilt"],
     [key |-> "resumeConfirmed", label |-> "Resume Confirmed"],
     [key |-> "portfolioBuildingAndConfirmed", label |-> "Portfolio Ready"],
     [key |-> "techDistributionAndExtension", label |-> "Tech Stack Defined"],
     [key |-> "cheatSheetBuiltOut", label |-> "Cheat Sheet Created"],
     [key |-> "hasAppliedEnoughJobs", label |-> "Jobs Applied"] >>

EligibleKeys ==
  << "eligibleForFirstMentorCall", "eligibleForSecondMentorCall",
     "eligibleForThirdMentorCall", "eligibleForFourthMentorCall",
     "eligibleForFifthMentorCall" >>

CompletedAtKeys ==
  << "firstMentorCallCompletedAt", "secondMentorCallCompletedAt",
     "thirdMentorCallCompletedAt", "fourthMentorCallCompletedAt",
     "fifthMentorCallCompletedAt" >>

Range(seq) == { seq[i] : i \in 1..Len(seq) }

MilestoneKeys == { MILESTONES[i].key : i \in 1..Len(MILESTONES) }

\* The boolean fields of UserStatus.
FlagKeys == MilestoneKeys \cup {"finalReview"} \cup Range(EligibleKeys)

\* The fields of UserStatus the widget can read.
StatusKeys == FlagKeys \cup Range(CompletedAtKeys)

\* The status of a candidate who has not started: the centre of the bound.
FreshStatus ==
  [k \in StatusKeys |-> IF k \in FlagKeys THEN "false" ELSE "null"]

\* ------------------------------------------------- the useMemo computation

Ordinal == << "first", "second", "third", "fourth", "fifth" >>

CallLabel ==
  << "First Mentor Call", "Second Mentor Call", "Third Mentor Call",
     "Fourth Mentor Call", "Fifth Mentor Call" >>

\* calls[n].required: the milestones listed for call n, in source order.
Required(n) ==
  CASE n = 1 -> << [key |-> "orientation", label |-> "Orientation Complete"],
                   [key |-> "resumeRebuilding", label |-> "Resume Rebuilt"] >>
    [] n = 2 -> << [key |-> "resumeConfirmed", label |-> "Resume Confirmed"],
                   [key |-> "portfolioBuildingAndConfirmed", label |-> "Portfolio Ready"] >>
    [] n = 3 -> << [key |-> "techDistributionAndExtension", label |-> "Tech Stack Defined"] >>
    [] n = 4 -> << [key |-> "cheatSheetBuiltOut", label |-> "Cheat Sheet Created"],
                   [key |-> "hasAppliedEnoughJobs", label |-> "Jobs Applied"] >>
    [] OTHER -> << >>

\* GetMessage as it would be if calls 2 to 4 had kept the text of call 1.
GetMessageOfFirstCall(n, milestones) ==
  IF n = 5
  THEN "Congratulations! You've completed all the prerequisites. You're now ready for your final mentor call. Our team has ensured everything is in place for this milestone conversation about your career journey."
  ELSE "Before you meet your mentor for your first mentor call, our team will ensure that these milestones are completed: "
       \o Join([i \in 1..Len(milestones) |-> milestones[i].label], ", ")
       \o ". We're here to guide you through each step and ensure everything is in place for a productive mentoring session."

\* calls[n].getMessage(milestones)
GetMessage(n, milestones) ==
  IF n = 5
  THEN "Congratulations! You've completed all the prerequisites. You're now ready for your final mentor call. Our team has ensured everything is in place for this milestone conversation about your career journey."
  ELSE LET milestoneLabels ==
             Join([i \in 1..Len(milestones) |-> milestones[i].label], ", ")
       IN "Before you meet your mentor for your " \o Ordinal[n]
          \o " mentor call, our team will ensure that these milestones are completed: "
          \o milestoneLabels
          \o ". We're here to guide you through each step and ensure everything is in place for a productive mentoring session."

\* const calls = [...]: the five call descriptors built from the status.
Calls(status) ==
  [n \in 1..5 |->
     [number |-> n,
      label |-> CallLabel[n],
      eligible |-> status[EligibleKeys[n]],
      completed |-> status[CompletedAtKeys[n]],
      required |-> Required(n)]]

\* AllRequiredDone as it would be with `status[r.key] !== false`.
AllRequiredDoneNotFalse(call, status) ==
  \A i \in 1..Len(call.required) : status[call.required[i].key] # "false"

\* call.required.every(r => status[r.key])
AllRequiredDone(call, status) ==
  \A i \in 1..Len(call.required) : Truthy(status[call.required[i].key])

\* { ...call, requiredMilestones: ms }
WithRequiredMilestones(call, ms) ==
  [k \in DOMAIN call \cup {"requiredMilestones"} |->
     IF k = "requiredMilestones" THEN ms ELSE call[k]]

\* Branch as it would be if the second branch selected the call as it is,
\* without `requiredMilestones: []`.
BranchNoEmptyList(call, status) ==
  IF Truthy(call.eligible) /\ Len(call.required) = 0 THEN call
  ELSE IF Truthy(call.eligible) /\ AllRequiredDone(call, status) THEN call
  ELSE IF ~Truthy(call.eligible) /\ Len(call.required) > 0
       THEN [WithRequiredMilestones(call, call.required)
               EXCEPT !.eligible = "false"]
  ELSE Null

\* Branch as it would be if the third branch listed only the milestones
\* that are still to do.
BranchUnmetOnly(call, status) ==
  IF Truthy(call.eligible) /\ Len(call.required) = 0 THEN call
  ELSE IF Truthy(call.eligible) /\ AllRequiredDone(call, status)
       THEN WithRequiredMilestones(call, << >>)
  ELSE IF ~Truthy(call.eligible) /\ Len(call.required) > 0
       THEN [WithRequiredMilestones(call,
               SelectSeq(call.required, LAMBDA r : ~Truthy(status[r.key])))
               EXCEPT !.eligible = "false"]
  ELSE Null

\* One iteration of the scan loop for a call that is neither completed nor
\* scheduled: the nextCall a branch assigns before its break, or Null when
\* no branch applies and the loop goes on to the next call.
Branch(call, status) ==
  IF Truthy(call.eligible) /\ Len(call.required) = 0 THEN call
  ELSE IF Truthy(call.eligible) /\ AllRequiredDone(call, status)
       THEN WithRequiredMilestones(call, << >>)
  ELSE IF ~Truthy(call.eligible) /\ Len(call.required) > 0
       THEN [WithRequiredMilestones(call, call.required)
               EXCEPT !.eligible = "false"]
  ELSE Null

\* Skipped as it would be without the check of the scheduled calls.
SkippedCompletedOnly(call, scheduledCallNumbers) == Truthy(call.completed)

\* if (call.completed) continue; if (scheduledCallNumbers.includes(...)) continue
Skipped(call, scheduledCallNumbers) ==
  Truthy(call.completed) \/ Includes(scheduledCallNumbers, call.number)

\* The scan loop from call i on: the value of nextCall when the loop ends
\* (Null when no branch broke out of it).
RECURSIVE Scan(_, _, _, _)
Scan(calls, i, status, scheduledCallNumbers) ==
  IF i > Len(calls) THEN Null
  ELSE IF Skipped(calls[i], scheduledCallNumbers)
       THEN Scan(calls, i + 1, status, scheduledCallNumbers)
  ELSE LET chosen == Branch(calls[i], status)
       IN IF chosen # Null THEN chosen
          ELSE Scan(calls, i + 1, status, scheduledCallNumbers)

\* calls.find(c => !c.completed && !scheduledCallNumbers.includes(c.number))
\* from index i on; Null stands for undefined.
RECURSIVE Find(_, _, _)
Find(calls, i, scheduledCallNumbers) ==
  IF i > Len(calls) THEN Null
  ELSE IF ~Truthy(calls[i].completed)
          /\ ~Includes(scheduledCallNumbers, calls[i].number)
       THEN calls[i]
       ELSE Find(calls, i + 1, scheduledCallNumbers)

\* Fallback as it would be if it defaulted to the last call.
FallbackToLastCall(calls, scanned, scheduledCallNumbers) ==
  IF scanned # Null THEN scanned
  ELSE LET found == Find(calls, 1, scheduledCallNumbers)
       IN IF found # Null THEN found ELSE calls[Len(calls)]

\* if (!nextCall) nextCall = calls.find(...) || calls[0]
Fallback(calls, scanned, scheduledCallNumbers) ==
  IF scanned # Null THEN scanned
  ELSE LET found == Find(calls, 1, scheduledCallNumbers)
       IN IF found # Null THEN found ELSE calls[1]

\* CompletedMilestones as it would be if finalReview were in MILESTONES.
CompletedMilestonesAndFinalReview(status) ==
  Cardinality({ i \in 1..Len(MILESTONES) : Truthy(status[MILESTONES[i].key]) })
    + (IF Truthy(status["finalReview"]) THEN 1 ELSE 0)

\* CompletedMilestones as it would be if it counted the milestones left.
CompletedMilestonesLeft(status) ==
  Cardinality({ i \in 1..Len(MILESTONES) : ~Truthy(status[MILESTONES[i].key]) })

\* MILESTONES.filter(m => status[m.key]).length
CompletedMilestones(status) ==
  Cardinality({ i \in 1..Len(MILESTONES) : Truthy(status[MILESTONES[i].key]) })

\* (completedMilestones / MILESTONES.length) * 100, kept as the exact
\* quotient num / den that the floating-point value approximates.
ProgressPercentage(status) ==
  [num |-> CompletedMilestones(status) * 100, den |-> Len(MILESTONES)]

\* What the useMemo returns while status is null.
EmptyView ==
  [currentMilestones |-> << >>, nextMentorCall |-> Null,
   progressPercentage |-> [num |-> 0, den |-> 1],
   isEligible |-> "false", isBooked |-> FALSE, isScheduled |-> FALSE,
   raised |-> FALSE]

\* The useMemo body.  raised records a TypeError: the read of
\* nextCall.requiredMilestones when nextCall is still null.
ComputeView(status, scheduledCallNumbers) ==
  IF status = Null THEN EmptyView
  ELSE
    LET calls == Calls(status)
        nextCall == Fallback(calls, Scan(calls, 1, status, scheduledCallNumbers),
                             scheduledCallNumbers)
    IN IF nextCall = Null THEN [EmptyView EXCEPT !.raised = TRUE]
       ELSE
         LET isScheduled == Includes(scheduledCallNumbers, nextCall.number)
             isEligible ==
               JsAnd(nextCall.eligible,
                     IF "requiredMilestones" \in DOMAIN nextCall
                        /\ Len(nextCall.requiredMilestones) = 0
                     THEN "true" ELSE "false")
             isBooked == ToBoolean(nextCall.completed)
             requiredMilestones ==
               IF "requiredMilestones" \in DOMAIN nextCall
               THEN nextCall.requiredMilestones
               ELSE nextCall.required
             currentMilestones ==
               [i \in 1..Len(requiredMilestones) |->
                  [id |-> requiredMilestones[i].key,
                   label |-> requiredMilestones[i].label,
                   completed |-> ToBoolean(status[requiredMilestones[i].key])]]
             withMessage ==
               [k \in DOMAIN nextCall \cup {"dynamicMessage"} |->
                  IF k = "dynamicMessage"
                  THEN GetMessage(nextCall.number, currentMilestones)
                  ELSE nextCall[k]]
         IN [currentMilestones |-> currentMilestones,
             nextMentorCall |-> withMessage,
             progressPercentage |-> ProgressPercentage(status),
             isEligible |-> isEligible,
             isBooked |-> isBooked,
             isScheduled |-> isScheduled,
             raised |-> FALSE]

\* ------------------------------------------------------ bounded inputs

Timestamp == "2025-01-15T10:00:00.000Z"

\* The fields of the status JSON in the order of the UserStatus interface.
KeyList ==
  << "orientation", "resumeRebuilding", "eligibleForFirstMentorCall",
     "firstMentorCallCompletedAt", "resumeConfirmed",
     "portfolioBuildingAndConfirmed", "eligibleForSecondMentorCall",
     "secondMentorCallCompletedAt", "techDistributionAndExtension",
     "eligibleForThirdMentorCall", "thirdMentorCallCompletedAt",
     "cheatSheetBuiltOut", "hasAppliedEnoughJobs",
     "eligibleForFourthMentorCall", "fourthMentorCallCompletedAt",
     "finalReview", "eligibleForFifthMentorCall",
     "fifthMentorCallCompletedAt" >>

\* The sets of at most n fields among KeyList[lo], KeyList[lo + 1], ...
RECURSIVE FieldSets(_, _)
FieldSets(lo, n) ==
  IF n = 0 \/ lo > Len(KeyList) THEN { {} }
  ELSE { {} } \cup
       UNION { { {KeyList[i]} \cup T : T \in FieldSets(i + 1, n - 1) }
               : i \in lo..Len(KeyList) }

\* The fields of the status JSON that are no milestone flags.
StageKeys == StatusKeys \ MilestoneKeys

\* The sets of at most MaxStageSet of them.
StageFieldSets ==
  { T \in FieldSets(1, MaxStageSet) : T \subseteq StageKeys }

\* The sets of fields that can have changed between two fetches.
ChangeSets == FieldSets(1, MaxDelta)

\* The non-empty sets of at most MaxAbsent flags among the set fields T.
AbsentSets(T) ==
  { A \in SUBSET (T \cap FlagKeys) : A # {} /\ Cardinality(A) <= MaxAbsent }

\* The userStatus object whose fields T are set, the flags A of them by
\* being left out of the JSON.
SnapshotOf(T, A) ==
  [k \in StatusKeys |->
     IF k \in A THEN "undefined"
     ELSE IF k \notin T THEN FreshStatus[k]
     ELSE IF k \in FlagKeys THEN "true" ELSE Timestamp]

\* The number of fields of a snapshot that are set.
Weight(data) ==
  IF data = Null THEN 0
  ELSE Cardinality({ k \in StatusKeys : data[k] # FreshStatus[k] })

Absent(data) ==
  IF data = Null THEN 0
  ELSE Cardinality({ k \in StatusKeys : data[k] = "undefined" })

\* The other value of a field: a flag is toggled (one that was missing is
\* sent as true), a completedAt is set or cleared.
Flip(v) ==
  IF v = "true" THEN "false"
  ELSE IF v \in {"false", "undefined"} THEN "true"
  ELSE IF v = "null" THEN Timestamp
  ELSE "null"

\* The userStatus object held, with the fields D changed, the flags A of
\* them by being left out of the JSON.
ChangedBy(held, D, A) ==
  [k \in StatusKeys |->
     IF k \in A THEN "undefined"
     ELSE IF k \in D THEN Flip(held[k])
     ELSE held[k]]

\* The scheduledCalls lists the parent page can pass: a call is listed at
\* most once, in the order of the scheduled times.
ScheduledLists ==
  UNION { { l \in [1..n -> [callNumber : 1..5]] :
              \A i, j \in 1..n : i # j => l[i].callNumber # l[j].callNumber }
          : n \in 0..(IF MaxSet < 5 THEN MaxSet ELSE 5) }

\* scheduledCalls.map(c => c.callNumber)
ScheduledCallNumbers(calls) == [i \in 1..Len(calls) |-> calls[i].callNumber]

\* ---------------------------------------------------------------- state

VARIABLES
  status,          \* useState<UserStatus | null>
  loading,         \* useState(true)
  booking,         \* useState(false)
  scheduledCalls,  \* the scheduledCalls prop
  view,            \* what the useMemo returned at the last render
  pc,              \* "load": the mount effect's loadStatus is awaiting;
                   \* "idle"; "book": handleBookCall is awaiting its token or
                   \* its POST; "reload": it is awaiting loadStatus
  bookRequest,     \* callNumber of the book-call request in progress, 0 if none

  \* the mentor routes (MentorRoutes, ProtectedMentorRoute, PublicMentorRoute)
  location,        \* the path the router is at
  localStorage,    \* the items 'mentorToken' and 'mentorInfo'
  protectedRoute,  \* the ProtectedMentorRoute instance of the route
  publicRoute,     \* the PublicMentorRoute instance of the route
  cookie,          \* the browser holds a session cookie that the fetches with
                   \* credentials: 'include' carry and the server accepts
  leaving,         \* the notice button that was pressed to get to the login
                   \* page, until the login page is displayed; "none"

  \* the page that holds the widget (MyMentor)
  myMentor,        \* its loading and scheduledCalls states, where its loadData
                   \* is, and the userStatus its last ok status response carried

  \* the user detail pages (MentorUserDetail, AdminUserDetail)
  detail,          \* the useState values of the mounted page and the route's id
  requests,        \* the fetches in flight, each with what its caller's
                   \* closure captured
  sent,            \* what the last step put on the wire, received and dispatched

  \* the job statistics of the detail pages' jobs tab (JobStats)
  jobStats         \* the props and the clock of one render, and where the
                   \* render is in calculateStreakData and getJobsPerDayData

widgetVars == << status, loading, booking, scheduledCalls, view, pc, bookRequest >>

routeVars ==
  << location, localStorage, protectedRoute, publicRoute, cookie, leaving >>

detailVars == << detail, requests, sent >>

vars == << widgetVars, routeVars, myMentor, detailVars, jobStats >>

\* What a step of the progress widget leaves alone.
OutsideWidget == << routeVars, myMentor, detailVars, jobStats >>

\* The render that follows a state or prop change re-runs the useMemo.
Render == view' = ComputeView(status', ScheduledCallNumbers(scheduledCalls'))

\* The widget after its first render and mount effect: loadStatus is awaiting.
UserProgressInit ==
  /\ status = Null
  /\ loading = TRUE
  /\ booking = FALSE
  /\ scheduledCalls \in ScheduledLists
  /\ view = ComputeView(Null, ScheduledCallNumbers(scheduledCalls))
  /\ pc = "load"
  /\ bookRequest = 0

\* What a loadStatus leaves behind when it returns: finally setLoading(false),
\* and the handleBookCall awaiting it runs its own finally setBooking(false).
LoadStatusReturns ==
  /\ loading' = FALSE
  /\ booking' = FALSE
  /\ bookRequest' = 0
  /\ pc' = "idle"

\* loadStatus: res.ok, setStatus(data.userStatus), every flag in the JSON.
LoadStatusOk ==
  /\ pc \in {"load", "reload"}
  /\ IF status = Null
     THEN \E T \in FieldSets(1, MaxSet - Len(scheduledCalls)) :
            status' = SnapshotOf(T, {})
     ELSE \E D \in ChangeSets :
            /\ Weight(ChangedBy(status, D, {})) + Len(scheduledCalls) <= MaxSet
            /\ status' = ChangedBy(status, D, {})
  /\ LoadStatusReturns
  /\ UNCHANGED scheduledCalls
  /\ Render
  /\ UNCHANGED OutsideWidget

\* loadStatus: res.ok, setStatus(data.userStatus), with flags missing from
\* the JSON.
LoadStatusPartial ==
  /\ pc \in {"load", "reload"}
  /\ IF status = Null
     THEN \E T \in FieldSets(1, MaxSet - Len(scheduledCalls)) :
            \E A \in AbsentSets(T) : status' = SnapshotOf(T, A)
     ELSE \E D \in ChangeSets : \E A \in SUBSET (D \cap FlagKeys) :
            /\ Weight(ChangedBy(status, D, A)) + Len(scheduledCalls) <= MaxSet
            /\ Absent(ChangedBy(status, D, A)) \in 1..MaxAbsent
            /\ status' = ChangedBy(status, D, A)
  /\ LoadStatusReturns
  /\ UNCHANGED scheduledCalls
  /\ Render
  /\ UNCHANGED OutsideWidget

\* loadStatus: res.ok, setStatus(data.userStatus), every flag in the JSON and
\* any of the milestone flags true; a re-fetch finds the other fields as
\* they were.
LoadStatusMilestones ==
  /\ pc \in {"load", "reload"}
  /\ \E M \in SUBSET MilestoneKeys :
       IF status = Null
       THEN \E T \in StageFieldSets :
              /\ Cardinality(T) + Len(scheduledCalls) <= MaxStageSet
              /\ status' = SnapshotOf(M \cup T, {})
       ELSE status' =
              SnapshotOf(M \cup { k \in StageKeys : status[k] # FreshStatus[k] }, {})
  /\ LoadStatusReturns
  /\ UNCHANGED scheduledCalls
  /\ Render
  /\ UNCHANGED OutsideWidget

\* loadStatus: `if (!token) return`.
LoadStatusNoToken ==
  /\ pc \in {"load", "reload"}
  /\ LoadStatusReturns
  /\ UNCHANGED << status, scheduledCalls >>
  /\ Render
  /\ UNCHANGED OutsideWidget

\* loadStatus: a response that is not ok, or a throw caught by the catch.
LoadStatusFailed ==
  /\ pc \in {"load", "reload"}
  /\ LoadStatusReturns
  /\ UNCHANGED << status, scheduledCalls >>
  /\ Render
  /\ UNCHANGED OutsideWidget

\* HandleBookCall as it would be if the guard did not test isEligible.
HandleBookCallAnyStage ==
  /\ ~loading
  /\ view.nextMentorCall # Null
  /\ ~booking
  /\ booking' = TRUE
  /\ bookRequest' = view.nextMentorCall.number
  /\ pc' = "book"
  /\ UNCHANGED << status, loading, scheduledCalls >>
  /\ Render
  /\ UNCHANGED OutsideWidget

\* handleBookCall up to its first await: the guard and setBooking(true).  The
\* button that calls it is rendered once the widget is past `if (loading)`.
HandleBookCall ==
  /\ ~loading
  /\ view.nextMentorCall # Null
  /\ Truthy(view.isEligible)
  /\ ~booking
  /\ booking' = TRUE
  /\ bookRequest' = view.nextMentorCall.number
  /\ pc' = "book"
  /\ UNCHANGED << status, loading, scheduledCalls >>
  /\ Render
  /\ UNCHANGED OutsideWidget

\* BookCallOk as it would be if the booked call were marked in the held
\* status before the re-fetch.
BookCallOkOptimistic ==
  /\ pc = "book"
  /\ loading' = TRUE
  /\ pc' = "reload"
  /\ status' = IF status = Null THEN status
               ELSE [status EXCEPT ![EligibleKeys[bookRequest]] = "false"]
  /\ UNCHANGED << booking, scheduledCalls, bookRequest >>
  /\ Render
  /\ UNCHANGED OutsideWidget

\* handleBookCall: res.ok, then `await loadStatus()` which sets loading.
BookCallOk ==
  /\ pc = "book"
  /\ loading' = TRUE
  /\ pc' = "reload"
  /\ UNCHANGED << status, booking, scheduledCalls, bookRequest >>
  /\ Render
  /\ UNCHANGED OutsideWidget

\* handleBookCall: no token.
BookCallNoToken ==
  /\ pc = "book"
  /\ booking' = FALSE
  /\ bookRequest' = 0
  /\ pc' = "idle"
  /\ UNCHANGED << status, loading, scheduledCalls >>
  /\ Render
  /\ UNCHANGED OutsideWidget

\* BookCallFailed as it would be if only the success path reset booking.
BookCallFailedStaysBooking ==
  /\ pc = "book"
  /\ bookRequest' = 0
  /\ pc' = "idle"
  /\ UNCHANGED << status, loading, booking, scheduledCalls >>
  /\ Render
  /\ UNCHANGED OutsideWidget

\* handleBookCall: a response that is not ok, or a throw.
BookCallFailed ==
  /\ pc = "book"
  /\ booking' = FALSE
  /\ bookRequest' = 0
  /\ pc' = "idle"
  /\ UNCHANGED << status, loading, scheduledCalls >>
  /\ Render
  /\ UNCHANGED OutsideWidget

\* The parent page re-renders the widget with a scheduledCalls list that
\* has one more call, at any place of the time order.
CallScheduled ==
  /\ Weight(status) + Len(scheduledCalls) < MaxSet
  /\ \E n \in 1..5 : \E at \in 0..Len(scheduledCalls) :
       /\ ~Includes(ScheduledCallNumbers(scheduledCalls), n)
       /\ scheduledCalls' =
            SubSeq(scheduledCalls, 1, at) \o << [callNumber |-> n] >>
              \o SubSeq(scheduledCalls, at + 1, Len(scheduledCalls))
  /\ UNCHANGED << status, loading, booking, pc, bookRequest >>
  /\ Render
  /\ UNCHANGED OutsideWidget

\* The parent page re-renders the widget with a scheduledCalls list that
\* has lost a call (it was completed or cancelled).
CallUnscheduled ==
  /\ \E at \in 1..Len(scheduledCalls) :
       scheduledCalls' =
         SubSeq(scheduledCalls, 1, at - 1)
           \o SubSeq(scheduledCalls, at + 1, Len(scheduledCalls))
  /\ UNCHANGED << status, loading, booking, pc, bookRequest >>
  /\ Render
  /\ UNCHANGED OutsideWidget

\* --------------------------------------------------------- mentor routes

\* The paths of MentorRoutes, and the admin dashboard the admin notice
\* leads to.
PublicPaths == { "/mentor", "/mentor/signup" }

ProtectedPaths == { "/mentor/dashboard", "/mentor/users/:id" }

\* The adminMentor objects a /api/mentor/me body can carry: each of isAdmin
\* and verifiedByAdmin true, false or missing.
MentorInfos ==
  [isAdmin : {"true", "false", "undefined"},
   verifiedByAdmin : {"true", "false", "undefined"}]

\* What the fetch of /api/mentor/me can come to: the fetch rejects; a
\* response that is not ok; an ok response whose body cannot be read as a
\* JSON object; an ok body without adminMentor; an ok body with one.
AuthResponses ==
  { [kind |-> k, adminMentor |-> Null] : k \in {"threw", "notok", "unreadable", "ok"} }
    \cup { [kind |-> "ok", adminMentor |-> m] : m \in MentorInfos }

\* The fetch of /api/mentor/me carries the Bearer token of localStorage, if
\* there is one, and the cookie.
Credentials == cookie \/ localStorage.mentorToken = "token"

\* What the fetch can come to now: the response is ok only to credentials.
MeResponses ==
  IF Credentials THEN AuthResponses
  ELSE { res \in AuthResponses : res.kind # "ok" }

\* JSON.stringify(mentorInfo) as localStorage keeps it: the object, or for
\* an undefined mentorInfo the text 'undefined'.  An item that is not set
\* is Null.
Stringify(mentorInfo) ==
  IF mentorInfo = Null THEN [text |-> "undefined"] ELSE mentorInfo

\* useState(null) of ProtectedMentorRoute; res is the outcome its checkAuth
\* met (Null while it awaits), logout the unverified notice's Logout request.
ProtectedMounted ==
  [mounted |-> TRUE, isAuthenticated |-> "null", res |-> Null, logout |-> FALSE]

\* useState(true) of PublicMentorRoute.
PublicMounted == [mounted |-> TRUE, isChecking |-> TRUE, res |-> Null]

\* The route element the router shows at a path: the guard of the path is
\* mounted anew and its mount effect calls checkAuth, the other is unmounted.
Navigate(path) ==
  /\ location' = path
  /\ protectedRoute' =
       IF path \in ProtectedPaths
       THEN [ProtectedMounted EXCEPT !.logout = protectedRoute.logout]
       ELSE [protectedRoute EXCEPT !.mounted = FALSE]
  /\ publicRoute' =
       IF path \in PublicPaths THEN PublicMounted
       ELSE [publicRoute EXCEPT !.mounted = FALSE]

\* navigate() to the path the router is at already: nothing is remounted.
NavigateReplace(path) ==
  IF path = location
  THEN UNCHANGED << location, protectedRoute, publicRoute >>
  ELSE Navigate(path)

\* What ProtectedMentorRoute returns.
ProtectedRenders ==
  IF ~protectedRoute.mounted THEN "unmounted"
  ELSE IF protectedRoute.isAuthenticated = "null" THEN "spinner"
  ELSE IF protectedRoute.isAuthenticated = "false" THEN "nothing"
  ELSE IF protectedRoute.isAuthenticated = "isAdmin" THEN "adminNotice"
  ELSE IF protectedRoute.isAuthenticated = "unverified" THEN "approvalNotice"
  ELSE "children"

\* What PublicMentorRoute returns.
PublicRenders ==
  IF ~publicRoute.mounted THEN "unmounted"
  ELSE IF publicRoute.isChecking THEN "spinner"
  ELSE "children"

RoutesInit ==
  /\ location \in PublicPaths \cup ProtectedPaths
  /\ localStorage \in
       [mentorToken : {"null", "token"},
        mentorInfo : {Null} \cup MentorInfos]
  /\ protectedRoute =
       IF location \in ProtectedPaths THEN ProtectedMounted
       ELSE [ProtectedMounted EXCEPT !.mounted = FALSE]
  /\ publicRoute =
       IF location \in PublicPaths THEN PublicMounted
       ELSE [PublicMounted EXCEPT !.mounted = FALSE]
  /\ cookie \in BOOLEAN
  /\ leaving = "none"

\* IsAuthenticatedFor as it would be without the verifiedByAdmin check.
IsAuthenticatedForUnverified(mentorInfo) ==
  IF Truthy(mentorInfo.isAdmin) THEN "isAdmin" ELSE "true"

\* The state checkAuth sets for the adminMentor of an ok response.
IsAuthenticatedFor(mentorInfo) ==
  IF Truthy(mentorInfo.isAdmin) THEN "isAdmin"
  ELSE IF ~Truthy(mentorInfo.verifiedByAdmin) THEN "unverified"
  ELSE "true"

\* ProtectedMentorRoute.checkAuth, from the response on.
ProtectedCheckAuth ==
  /\ protectedRoute.mounted
  /\ protectedRoute.res = Null
  /\ \E res \in MeResponses :
       IF res.kind = "ok" /\ res.adminMentor # Null
       THEN /\ localStorage' =
                 [localStorage EXCEPT !.mentorInfo = Stringify(res.adminMentor)]
            /\ protectedRoute' =
                 [protectedRoute EXCEPT
                    !.res = res,
                    !.isAuthenticated = IsAuthenticatedFor(res.adminMentor)]
            /\ UNCHANGED << location, publicRoute >>
       ELSE \* not ok, or the catch: a rejected fetch, a body that is not
            \* JSON, or mentorInfo.isAdmin read on undefined after setItem
            /\ localStorage' =
                 IF res.kind = "ok"
                 THEN [localStorage EXCEPT !.mentorInfo = Stringify(Null)]
                 ELSE localStorage
            /\ location' = "/mentor"
            /\ protectedRoute' =
                 [protectedRoute EXCEPT
                    !.res = res, !.isAuthenticated = "false", !.mounted = FALSE]
            /\ publicRoute' = PublicMounted
  /\ UNCHANGED << cookie, leaving >>
  /\ UNCHANGED << widgetVars, myMentor, detailVars, jobStats >>

\* PublicCheckAuth as it would be if an ok response ended the check like
\* any other, without the redirect.
PublicCheckAuthNoRedirect ==
  /\ publicRoute.mounted
  /\ publicRoute.res = Null
  /\ \E res \in MeResponses :
       /\ localStorage' =
            IF res.kind = "ok"
            THEN [localStorage EXCEPT !.mentorInfo = Stringify(res.adminMentor)]
            ELSE localStorage
       /\ publicRoute' = [publicRoute EXCEPT !.res = res, !.isChecking = FALSE]
       /\ UNCHANGED << location, protectedRoute >>
  /\ leaving' = "none"
  /\ UNCHANGED cookie
  /\ UNCHANGED << widgetVars, myMentor, detailVars, jobStats >>

\* PublicMentorRoute.checkAuth, from the response on.
PublicCheckAuth ==
  /\ publicRoute.mounted
  /\ publicRoute.res = Null
  /\ \E res \in MeResponses :
       IF res.kind = "ok"
       THEN /\ localStorage' =
                 [localStorage EXCEPT !.mentorInfo = Stringify(res.adminMentor)]
            /\ location' = "/mentor/dashboard"
            /\ publicRoute' = [publicRoute EXCEPT !.res = res, !.mounted = FALSE]
            /\ protectedRoute' =
                 [ProtectedMounted EXCEPT !.logout = protectedRoute.logout]
            /\ UNCHANGED leaving
       ELSE /\ publicRoute' = [publicRoute EXCEPT !.res = res, !.isChecking = FALSE]
            /\ leaving' = "none"
            /\ UNCHANGED << location, localStorage, protectedRoute >>
  /\ UNCHANGED cookie
  /\ UNCHANGED << widgetVars, myMentor, detailVars, jobStats >>

\* The admin notice: Logout, or Go to Admin Dashboard.
AdminNoticeLeave ==
  /\ ProtectedRenders = "adminNotice"
  /\ localStorage' = [mentorToken |-> "null", mentorInfo |-> Null]
  /\ \E path \in {"/mentor", "/admin/dashboard"} :
       /\ Navigate(path)
       /\ leaving' = IF path = "/mentor" THEN "adminLogout" ELSE "none"
  /\ UNCHANGED cookie
  /\ UNCHANGED << widgetVars, myMentor, detailVars, jobStats >>

\* The approval notice: Go to Login.
ApprovalNoticeLogin ==
  /\ ProtectedRenders = "approvalNotice"
  /\ localStorage' = [mentorToken |-> "null", mentorInfo |-> Null]
  /\ Navigate("/mentor")
  /\ leaving' = "approvalLogin"
  /\ UNCHANGED cookie
  /\ UNCHANGED << widgetVars, myMentor, detailVars, jobStats >>

\* The approval notice: Logout, up to the await of the logout request.
ApprovalNoticeLogout ==
  /\ ProtectedRenders = "approvalNotice"
  /\ ~protectedRoute.logout
  /\ localStorage' = [localStorage EXCEPT !.mentorToken = "null"]
  /\ protectedRoute' = [protectedRoute EXCEPT !.logout = TRUE]
  /\ leaving' = "approvalLogout"
  /\ UNCHANGED << location, publicRoute, cookie >>
  /\ UNCHANGED << widgetVars, myMentor, detailVars, jobStats >>

\* The approval notice's Logout, after the request returned, ending the
\* session of the cookie, or threw.
ApprovalNoticeLogoutReturns ==
  /\ protectedRoute.logout
  /\ cookie' \in {FALSE, cookie}
  /\ UNCHANGED leaving
  /\ localStorage' = [localStorage EXCEPT !.mentorInfo = Null]
  /\ IF location = "/mentor"
     THEN /\ protectedRoute' = [protectedRoute EXCEPT !.logout = FALSE]
          /\ UNCHANGED << location, publicRoute >>
     ELSE /\ location' = "/mentor"
          /\ protectedRoute' =
               [protectedRoute EXCEPT !.logout = FALSE, !.mounted = FALSE]
          /\ publicRoute' = PublicMounted
  /\ UNCHANGED << widgetVars, myMentor, detailVars, jobStats >>

\* The pages inside the guards go from one route to another: the login
\* page to the signup page and back, the dashboard to a user and back.
PageNavigates ==
  /\ \/ PublicRenders = "children" /\ \E path \in PublicPaths \ {location} : Navigate(path)
     \/ ProtectedRenders = "children" /\ \E path \in ProtectedPaths \ {location} : Navigate(path)
  /\ UNCHANGED << localStorage, cookie, leaving >>
  /\ UNCHANGED << widgetVars, myMentor, detailVars, jobStats >>

\* The dashboard's logout, its request having returned or thrown.
PageLogout ==
  /\ ProtectedRenders = "children"
  /\ localStorage' = [mentorToken |-> "null", mentorInfo |-> Null]
  /\ Navigate("/mentor")
  /\ cookie' \in {FALSE, cookie}
  /\ UNCHANGED leaving
  /\ UNCHANGED << widgetVars, myMentor, detailVars, jobStats >>

\* The user comes back to a mentor path from outside the mentor routes.
EnterMentorPath ==
  /\ location \notin PublicPaths \cup ProtectedPaths
  /\ \E path \in PublicPaths \cup ProtectedPaths : Navigate(path)
  /\ localStorage' \in [mentorToken : {"null", "token"}, mentorInfo : {localStorage.mentorInfo}]
  /\ cookie' \in BOOLEAN
  /\ UNCHANGED leaving
  /\ UNCHANGED << widgetVars, myMentor, detailVars, jobStats >>

\* ------------------------------------------------------------ MyMentor

\* The scheduled times a status response can carry, as instants 1..MaxTime;
\* 0 is a scheduledAt that is null.
Instants == 0..MaxTime

\* The two fields of a stage that loadData reads.
StageValues == [scheduledAt : Instants, completedAt : {"null", Timestamp}]

\* The number of fields of a userStatus that are set.
StageWeight(userStatus) ==
  Cardinality({ n \in 1..5 : userStatus[n].scheduledAt # 0 })
    + Cardinality({ n \in 1..5 : userStatus[n].completedAt # "null" })

\* The userStatus objects a first response can carry.
FetchedStatuses ==
  UNION { { [n \in 1..5 |->
               [scheduledAt |-> IF n \in S THEN at[n] ELSE 0,
                completedAt |-> IF n \in C THEN Timestamp ELSE "null"]]
            : at \in [S -> 1..MaxTime] }
          : <<S, C>> \in { sc \in (SUBSET (1..5)) \X (SUBSET (1..5)) :
                             Cardinality(sc[1]) + Cardinality(sc[2]) <= MaxSet } }

\* The userStatus objects a later response can carry: the one before, or
\* one whose fields of one stage differ.
RefetchedStatuses(held) ==
  { [held EXCEPT ![n] = new] : n \in 1..5, new \in StageValues }

\* SortByTime as it would be if the list were left in the order of the loop.
Unsorted(calls) == calls

\* calls.sort((a, b) => time(a) - time(b)): a stable sort, here by
\* inserting each call behind the calls that are not later.
RECURSIVE SortByTime(_)
SortByTime(calls) ==
  IF calls = << >> THEN << >>
  ELSE LET last == calls[Len(calls)]
           rest == SortByTime(SubSeq(calls, 1, Len(calls) - 1))
           keep == Cardinality({ i \in 1..Len(rest) :
                                   rest[i].scheduledAt <= last.scheduledAt })
       IN SubSeq(rest, 1, keep) \o << last >> \o SubSeq(rest, keep + 1, Len(rest))

\* The loop over the calls 1 to 5: a call is pushed when its scheduledAt is
\* set and its completedAt is not.
RECURSIVE Pushed(_, _)
Pushed(userStatus, i) ==
  IF i = 0 THEN << >>
  ELSE Pushed(userStatus, i - 1) \o
       (IF userStatus[i].scheduledAt # 0 /\ ~Truthy(userStatus[i].completedAt)
        THEN << [callNumber |-> i, scheduledAt |-> userStatus[i].scheduledAt] >>
        ELSE << >>)

\* The scheduledCalls prop as the widget reads it.
PropOf(calls) == [i \in 1..Len(calls) |-> [callNumber |-> calls[i].callNumber]]

\* The page is not followed: the widget is given its lists by CallScheduled
\* and CallUnscheduled, or none.
MyMentorNotFollowed == myMentor = Null

\* MyMentor after its first render: loading, waiting for the auth state.
MyMentorInit ==
  myMentor = [loading |-> TRUE, scheduledCalls |-> << >>,
              pc |-> "auth", fetched |-> Null]

\* onAuthStateChanged with a user: loadData up to the status fetch.
MyMentorLoadData ==
  /\ myMentor.pc \in {"auth", "idle"}
  /\ myMentor' = [myMentor EXCEPT !.loading = TRUE, !.pc = "status"]
  /\ UNCHANGED << widgetVars, routeVars, detailVars, jobStats >>

\* onAuthStateChanged without a user, or loadData without a currentUser.
MyMentorNoUser ==
  /\ myMentor.pc \in {"auth", "idle"}
  /\ myMentor' = [myMentor EXCEPT !.loading = FALSE, !.pc = "idle"]
  /\ UNCHANGED << widgetVars, routeVars, detailVars, jobStats >>

\* loadData: statusRes.ok, the calls derived, sorted and set.
MyMentorStatusOk ==
  /\ myMentor.pc = "status"
  /\ \E userStatus \in (IF myMentor.fetched = Null THEN FetchedStatuses
                        ELSE RefetchedStatuses(myMentor.fetched)) :
       /\ StageWeight(userStatus) <= MaxSet
       /\ myMentor' = [myMentor EXCEPT
                         !.fetched = userStatus,
                         !.scheduledCalls = SortByTime(Pushed(userStatus, 5)),
                         !.pc = "mentor"]
  /\ scheduledCalls' = PropOf(myMentor'.scheduledCalls)
  /\ UNCHANGED << status, loading, booking, pc, bookRequest >>
  /\ Render
  /\ UNCHANGED << routeVars, detailVars, jobStats >>

\* loadData: a status response that is not ok, or a throw in its try.
MyMentorStatusFailed ==
  /\ myMentor.pc = "status"
  /\ myMentor' = [myMentor EXCEPT !.pc = "mentor"]
  /\ UNCHANGED << widgetVars, routeVars, detailVars, jobStats >>

\* loadData: the mentor fetch, whatever it comes to, and the finally.
MyMentorLoaded ==
  /\ myMentor.pc = "mentor"
  /\ myMentor' = [myMentor EXCEPT !.loading = FALSE, !.pc = "idle"]
  /\ UNCHANGED << widgetVars, routeVars, detailVars, jobStats >>

\* ------------------------------------------------- the user detail pages
\*
\* MentorUserDetail and AdminUserDetail: one mounted page, the id of its
\* route, its useState values, and the fetches it has in flight.  A fetch
\* started by a function keeps what the function's closure captured (the
\* route id, the scheduleForm.callNumber of the render that created it); the
\* answer is handled with the captured values and the setters write the
\* page's current state.  Nothing cancels a fetch.  The setters called in one
\* continuation and the effects that run after the render they cause are one
\* step.  Once a page is unmounted the model stops following it.

\* The call numbers the server can list as eligible.
MaxCallNumber == 2

\* The operations of the person at the page that start fetches in one run:
\* opening the schedule modal, a submit, a delete, a verification toggle.
MaxOps == 3

\* The moves of the person at the page that start fetches in one run: a
\* route change, a tab change, a filter change, a page change.
MaxMoves == 4

\* The pages of the applied-jobs list.
MaxPage == 2

\* The scheduled sessions a response lists are of calls 1..MaxSessions.
MaxSessions == 1

CallNumbers == 1..MaxCallNumber

UserIds == {"A", "B"}

DetailVariants == {"mentor", "admin"}

TimeFilters == {"all", "7days", "30days"}

\* The eligibleCalls arrays a response can carry: call numbers in any order.
CallLists ==
  { l \in UNION { [1..n -> CallNumbers] : n \in 0..MaxCallNumber } :
      \A i, j \in 1..Len(l) : l[i] = l[j] => i = j }

\* What a fetch can come back with: it threw, res.ok was false, res.ok was
\* true but res.json() threw, or res.ok was true with a body.
Failures == { [kind |-> "threw"], [kind |-> "notok"], [kind |-> "unreadable"] }

EligibleResponses ==
  Failures
    \cup { [kind |-> "ok", body |-> [eligibleCalls |-> l]] : l \in CallLists }
    \cup { [kind |-> "ok", body |-> [success |-> "true"]] }

SessionsResponses ==
  Failures
    \cup { [kind |-> "ok", sessions |-> s] : s \in SUBSET (1..MaxSessions) }

\* The body was read: the statements after `await res.json()` run.
Read(res) == res.kind = "ok"

\* const calls = data.eligibleCalls || [] of an ok response, [] in the else
\* branch and in the catch block.
\* EligibleCallsOf as it would be if the page left call 1 out.
EligibleCallsOfLater(res) ==
  IF Read(res) /\ "eligibleCalls" \in DOMAIN res.body
  THEN SelectSeq(res.body.eligibleCalls, LAMBDA n : n # 1)
  ELSE << >>

EligibleCallsOf(res) ==
  IF Read(res) /\ "eligibleCalls" \in DOMAIN res.body
  THEN res.body.eligibleCalls
  ELSE << >>

\* data.sessions || [] of an ok response, [] otherwise; the page lists them
\* by call number.
SessionsOf(res) == IF Read(res) THEN res.sessions ELSE {}

\* useState initial value of scheduleForm, and what every reset writes.
EmptyForm == [callNumber |-> 1, filled |-> FALSE]

\* The state of a page after its mount effects: loadData has set loading and
\* read isAdmin from localStorage, and awaits the user.
DetailMounted(variant, id, isAdmin) ==
  [ variant |-> variant, id |-> id, mounted |-> TRUE, isAdmin |-> isAdmin,
    user |-> Null, loading |-> TRUE,
    showScheduleForm |-> FALSE, scheduleForm |-> EmptyForm,
    isScheduling |-> FALSE,
    eligibleCalls |-> << >>, loadingEligibleCalls |-> FALSE,
    scheduledSessions |-> {}, loadingSessions |-> FALSE,
    deleteSessionModal |-> 0, isDeletingSession |-> FALSE,
    showPasswordModal |-> FALSE, password |-> FALSE,
    isTogglingVerification |-> FALSE,
    activeTab |-> IF variant = "mentor" THEN "calls" ELSE "progress",
    timeFilter |-> "all", jobsPage |-> 1, jobs |-> Null,
    jobsLoading |-> FALSE ]

NoRequests ==
  [ loadData |-> EmptyBag, eligible |-> EmptyBag, sessions |-> 0,
    jobs |-> EmptyBag, schedule |-> Null, delete |-> Null, patch |-> 0,
    ops |-> 0 ]

\* Nothing sent, nothing received, nothing dispatched.
Quiet == [request |-> Null, response |-> Null, event |-> "none"]

Plus(bag, e) == bag (+) SetToBag({e})

Minus(bag, e) == bag (-) SetToBag({e})

\* The page is past `if (loading)` and `if (!user)`: its markup is rendered.
PageShown == detail.mounted /\ ~detail.loading /\ detail.user # Null

\* None of the three overlays covers the page.
NoModal ==
  /\ ~detail.showScheduleForm
  /\ detail.deleteSessionModal = 0
  /\ ~detail.showPasswordModal

\* The tab that lists the scheduled sessions.
SessionsTab(d) == IF d.variant = "mentor" THEN "calls" ELSE "progress"

\* value of the call-number select; 0 stands for ''.
SelectValue(d) ==
  IF Includes(d.eligibleCalls, d.scheduleForm.callNumber)
  THEN d.scheduleForm.callNumber
  ELSE IF Len(d.eligibleCalls) > 0 THEN d.eligibleCalls[1] ELSE 0

\* The call numbers among the select's options: while loading, and when the
\* list is empty, the only option is a placeholder.
CallNumberOptions(d) ==
  IF d.loadingEligibleCalls THEN << >> ELSE d.eligibleCalls

SelectDisabled(d) == d.loadingEligibleCalls \/ Len(d.eligibleCalls) = 0

SubmitDisabled(d) ==
  d.isScheduling \/ Len(d.eligibleCalls) = 0 \/ d.loadingEligibleCalls

\* loadEligibleCalls from its fetch's answer to its finally block; captured
\* is the scheduleForm.callNumber of the render that created the function.
LoadEligibleCallsReturns(d, res, captured) ==
  LET calls == EligibleCallsOf(res) IN
  [d EXCEPT
     !.eligibleCalls = calls,
     !.scheduleForm.callNumber =
        IF ~Read(res) THEN @
        ELSE IF Len(calls) > 0
             THEN IF ~Includes(calls, captured) THEN calls[1] ELSE @
             ELSE 1,
     !.loadingEligibleCalls = FALSE]

\* loadScheduledSessions from its fetch's answer on.
LoadScheduledSessionsReturns(d, res) ==
  [d EXCEPT !.scheduledSessions = SessionsOf(res), !.loadingSessions = FALSE]

\* The user a user response for id carries.
UserOf(id, verified) == [id |-> id, verifiedByAdmin |-> verified]

\* The jobs a jobs response carries: those of the user, page and filter asked.
JobsOf(req) == [id |-> req.id, page |-> req.page, timeFilter |-> req.timeFilter]

\* loadJobs(page) called in a render of d: what its closure holds.
JobsRequest(d, page) == [id |-> d.id, page |-> page, timeFilter |-> d.timeFilter]

DetailUnchangedElsewhere ==
  UNCHANGED << widgetVars, routeVars, myMentor, jobStats >>

\* ---- loadData

\* The effects that follow a render in which user?.id has changed: the
\* loading flags their calls set, and the fetches they start.
UserIdFlags(d) ==
  [d EXCEPT !.jobsLoading = @ \/ d.activeTab = "jobs",
            !.loadingSessions = @ \/ d.activeTab = SessionsTab(d),
            !.loadingEligibleCalls = @ \/ d.showScheduleForm]

UserIdEffects(d, r) ==
  [r EXCEPT
     !.jobs = IF d.activeTab = "jobs"
              THEN Plus(@, JobsRequest(d, d.jobsPage)) ELSE @,
     !.sessions = IF d.activeTab = SessionsTab(d) THEN @ + 1 ELSE @,
     !.eligible = IF d.showScheduleForm
                  THEN Plus(@, [callNumber |-> d.scheduleForm.callNumber])
                  ELSE @]

\* The user request of the [id] effect is answered ok: setUser, setLoading.
LoadDataOk ==
  /\ detail # Null /\ detail.mounted
  /\ \E req \in BagToSet(requests.loadData), verified \in BOOLEAN :
       /\ req.origin = "effect"
       /\ LET changed == detail.user = Null \/ detail.user.id # req.id
              d == [detail EXCEPT !.user = UserOf(req.id, verified),
                                  !.loading = FALSE]
              r == [requests EXCEPT !.loadData = Minus(@, req)]
          IN /\ detail' = IF changed THEN UserIdFlags(d) ELSE d
             /\ requests' = IF changed THEN UserIdEffects(d, r) ELSE r
             /\ sent' = [Quiet EXCEPT
                           !.response = [of |-> "user", id |-> req.id]]
  /\ DetailUnchangedElsewhere

\* The user request fails: navigate to the dashboard, which unmounts the page.
LoadDataFailed ==
  /\ detail # Null /\ detail.mounted
  /\ \E req \in BagToSet(requests.loadData) :
       /\ detail' = [detail EXCEPT !.mounted = FALSE, !.loading = FALSE]
       /\ requests' = [NoRequests EXCEPT !.ops = requests.ops]
       /\ sent' = [Quiet EXCEPT !.response = [of |-> "user", id |-> req.id]]
  /\ DetailUnchangedElsewhere

\* A loadScheduledSessions call of the [user?.id, activeTab] effect returns.
SessionsReturn ==
  /\ detail # Null /\ detail.mounted
  /\ requests.sessions > 0
  /\ \E res \in SessionsResponses :
       detail' = LoadScheduledSessionsReturns(detail, res)
  /\ requests' = [requests EXCEPT !.sessions = @ - 1]
  /\ sent' = Quiet
  /\ DetailUnchangedElsewhere

\* ---- the schedule-call modal

\* The Schedule Call button: the modal opens and its effect calls
\* loadEligibleCalls.
OpenScheduleForm ==
  /\ PageShown /\ NoModal /\ detail.isAdmin
  /\ requests.ops < MaxOps
  /\ detail' = [detail EXCEPT !.showScheduleForm = TRUE,
                              !.loadingEligibleCalls = TRUE]
  /\ requests' = [requests EXCEPT
                    !.ops = @ + 1,
                    !.eligible =
                       Plus(@, [callNumber |-> detail.scheduleForm.callNumber])]
  /\ sent' = Quiet
  /\ DetailUnchangedElsewhere

\* The modal's X and Cancel buttons.
CloseScheduleForm ==
  /\ PageShown /\ detail.showScheduleForm
  /\ detail' = [detail EXCEPT !.showScheduleForm = FALSE,
                              !.scheduleForm = EmptyForm]
  /\ sent' = Quiet
  /\ UNCHANGED requests
  /\ DetailUnchangedElsewhere

\* onChange of the call-number select.
SelectCallNumber ==
  /\ PageShown /\ detail.showScheduleForm
  /\ ~SelectDisabled(detail)
  /\ \E n \in CallNumbers :
       /\ Includes(CallNumberOptions(detail), n)
       /\ n # SelectValue(detail)
       /\ detail' = [detail EXCEPT !.scheduleForm.callNumber = n]
  /\ sent' = Quiet
  /\ UNCHANGED requests
  /\ DetailUnchangedElsewhere

\* The link, the date and the time are typed in.
FillScheduleForm ==
  /\ PageShown /\ detail.showScheduleForm
  /\ ~detail.scheduleForm.filled
  /\ detail' = [detail EXCEPT !.scheduleForm.filled = TRUE]
  /\ sent' = Quiet
  /\ UNCHANGED requests
  /\ DetailUnchangedElsewhere

\* An answer to a loadEligibleCalls call of the modal effect.
EligibleCallsReturn ==
  /\ detail.mounted
  /\ \E req \in BagToSet(requests.eligible), res \in EligibleResponses :
       /\ detail' = LoadEligibleCallsReturns(detail, res, req.callNumber)
       /\ requests' = [requests EXCEPT !.eligible = Minus(@, req)]
       /\ sent' = [Quiet EXCEPT
                     !.response = [of |-> "eligible-calls", res |-> res]]
  /\ DetailUnchangedElsewhere

\* ---- handleScheduleCall

\* The submit button: the guard passes, the POST is sent.
HandleScheduleCall ==
  /\ PageShown /\ detail.showScheduleForm
  /\ ~SubmitDisabled(detail)
  /\ detail.scheduleForm.filled
  /\ detail.variant = "admin" => detail.isAdmin
  /\ requests.ops < MaxOps
  /\ detail' = [detail EXCEPT !.isScheduling = TRUE]
  /\ requests' = [requests EXCEPT
                    !.ops = @ + 1,
                    !.schedule =
                       [pc |-> "post",
                        callNumber |-> detail.scheduleForm.callNumber]]
  /\ sent' = [Quiet EXCEPT
                !.request = [of |-> "schedule-call",
                             callNumber |-> detail.scheduleForm.callNumber]]
  /\ DetailUnchangedElsewhere

\* res.ok: the modal closes, the form is reset, loadEligibleCalls is awaited.
ScheduleCallOk ==
  /\ detail.mounted
  /\ requests.schedule # Null /\ requests.schedule.pc = "post"
  /\ detail' = [detail EXCEPT !.showScheduleForm = FALSE,
                              !.scheduleForm = EmptyForm,
                              !.loadingEligibleCalls = TRUE]
  /\ requests' = [requests EXCEPT !.schedule.pc = "eligible"]
  /\ sent' = [Quiet EXCEPT !.response = [of |-> "schedule-call", ok |-> TRUE]]
  /\ DetailUnchangedElsewhere

\* A non-ok answer or a throw: a toast, then the finally block.
ScheduleCallFailed ==
  /\ detail.mounted
  /\ requests.schedule # Null /\ requests.schedule.pc = "post"
  /\ detail' = [detail EXCEPT !.isScheduling = FALSE]
  /\ requests' = [requests EXCEPT !.schedule = Null]
  /\ sent' = [Quiet EXCEPT !.response = [of |-> "schedule-call", ok |-> FALSE]]
  /\ DetailUnchangedElsewhere

\* The awaited loadEligibleCalls returns; loadScheduledSessions is awaited.
ScheduleReloadsSessions ==
  /\ detail.mounted
  /\ requests.schedule # Null /\ requests.schedule.pc = "eligible"
  /\ \E res \in EligibleResponses :
       /\ detail' = [LoadEligibleCallsReturns(detail, res,
                                              requests.schedule.callNumber)
                       EXCEPT !.loadingSessions = TRUE]
       /\ sent' = [Quiet EXCEPT
                     !.response = [of |-> "eligible-calls", res |-> res]]
  /\ requests' = [requests EXCEPT !.schedule.pc = "sessions"]
  /\ DetailUnchangedElsewhere

\* The awaited loadScheduledSessions returns; the event is dispatched and
\* the finally block runs.
ScheduleCallDone ==
  /\ detail.mounted
  /\ requests.schedule # Null /\ requests.schedule.pc = "sessions"
  /\ \E res \in SessionsResponses :
       detail' = [LoadScheduledSessionsReturns(detail, res)
                    EXCEPT !.isScheduling = FALSE]
  /\ requests' = [requests EXCEPT !.schedule = Null]
  /\ sent' = [Quiet EXCEPT !.event = "userStatusUpdated"]
  /\ DetailUnchangedElsewhere

\* ---- handleDeleteSession

\* The delete button of a listed session.
OpenDeleteModal ==
  /\ PageShown /\ NoModal
  /\ detail.activeTab = SessionsTab(detail)
  /\ ~detail.loadingSessions
  /\ detail.variant = "admin" => detail.isAdmin
  /\ \E n \in detail.scheduledSessions :
       detail' = [detail EXCEPT !.deleteSessionModal = n]
  /\ sent' = Quiet
  /\ UNCHANGED requests
  /\ DetailUnchangedElsewhere

\* The modal's X, which is never disabled, and its Cancel button.
CloseDeleteModal ==
  /\ PageShown /\ detail.deleteSessionModal # 0
  /\ detail' = [detail EXCEPT !.deleteSessionModal = 0]
  /\ sent' = Quiet
  /\ UNCHANGED requests
  /\ DetailUnchangedElsewhere

\* The modal's Delete button: the DELETE is sent.
HandleDeleteSession ==
  /\ PageShown /\ detail.deleteSessionModal # 0
  /\ ~detail.isDeletingSession
  /\ detail.variant = "admin" => detail.isAdmin
  /\ requests.ops < MaxOps
  /\ detail' = [detail EXCEPT !.isDeletingSession = TRUE]
  /\ requests' = [requests EXCEPT
                    !.ops = @ + 1,
                    !.delete =
                       [pc |-> "delete",
                        callNumber |-> detail.scheduleForm.callNumber]]
  /\ sent' = [Quiet EXCEPT
                !.request = [of |-> "delete-session",
                             callNumber |-> detail.deleteSessionModal]]
  /\ DetailUnchangedElsewhere

\* res.ok: the modal closes, loadScheduledSessions is awaited.
DeleteSessionOk ==
  /\ detail.mounted
  /\ requests.delete # Null /\ requests.delete.pc = "delete"
  /\ detail' = [detail EXCEPT !.deleteSessionModal = 0,
                              !.loadingSessions = TRUE]
  /\ requests' = [requests EXCEPT !.delete.pc = "sessions"]
  /\ sent' = [Quiet EXCEPT !.response = [of |-> "delete-session", ok |-> TRUE]]
  /\ DetailUnchangedElsewhere

\* A non-ok answer or a throw: a toast, then the finally block.
DeleteSessionFailed ==
  /\ detail.mounted
  /\ requests.delete # Null /\ requests.delete.pc = "delete"
  /\ detail' = [detail EXCEPT !.isDeletingSession = FALSE]
  /\ requests' = [requests EXCEPT !.delete = Null]
  /\ sent' = [Quiet EXCEPT !.response = [of |-> "delete-session", ok |-> FALSE]]
  /\ DetailUnchangedElsewhere

\* The awaited loadScheduledSessions returns; loadEligibleCalls is awaited.
DeleteReloadsEligible ==
  /\ detail.mounted
  /\ requests.delete # Null /\ requests.delete.pc = "sessions"
  /\ \E res \in SessionsResponses :
       detail' = [LoadScheduledSessionsReturns(detail, res)
                    EXCEPT !.loadingEligibleCalls = TRUE]
  /\ requests' = [requests EXCEPT !.delete.pc = "eligible"]
  /\ sent' = Quiet
  /\ DetailUnchangedElsewhere

\* The awaited loadEligibleCalls returns; the event is dispatched and the
\* finally block runs.
DeleteSessionDone ==
  /\ detail.mounted
  /\ requests.delete # Null /\ requests.delete.pc = "eligible"
  /\ \E res \in EligibleResponses :
       /\ detail' = [LoadEligibleCallsReturns(detail, res,
                                              requests.delete.callNumber)
                       EXCEPT !.isDeletingSession = FALSE]
       /\ sent' = [Quiet EXCEPT
                     !.response = [of |-> "eligible-calls", res |-> res],
                     !.event = "userStatusUpdated"]
  /\ requests' = [requests EXCEPT !.delete = Null]
  /\ DetailUnchangedElsewhere

\* ---- handleToggleVerification (AdminUserDetail)

\* The lock button next to the user's name.
OpenPasswordModal ==
  /\ PageShown /\ NoModal
  /\ detail.variant = "admin" /\ detail.isAdmin
  /\ detail' = [detail EXCEPT !.showPasswordModal = TRUE]
  /\ sent' = Quiet
  /\ UNCHANGED requests
  /\ DetailUnchangedElsewhere

\* The modal's X and Cancel buttons.
ClosePasswordModal ==
  /\ PageShown /\ detail.showPasswordModal
  /\ detail' = [detail EXCEPT !.showPasswordModal = FALSE,
                              !.password = FALSE]
  /\ sent' = Quiet
  /\ UNCHANGED requests
  /\ DetailUnchangedElsewhere

\* onChange of the password input: a password is typed.
TypePassword ==
  /\ PageShown /\ detail.showPasswordModal
  /\ ~detail.password
  /\ detail' = [detail EXCEPT !.password = TRUE]
  /\ sent' = Quiet
  /\ UNCHANGED requests
  /\ DetailUnchangedElsewhere

\* The Confirm button, disabled while toggling, or the Enter key in the
\* password input, which is not: the guard passes, the PATCH is sent.
HandleToggleVerification ==
  /\ PageShown /\ detail.showPasswordModal
  /\ detail.isAdmin /\ detail.password
  /\ requests.ops < MaxOps
  /\ detail' = [detail EXCEPT !.isTogglingVerification = TRUE]
  /\ requests' = [requests EXCEPT !.ops = @ + 1, !.patch = @ + 1]
  /\ sent' = [Quiet EXCEPT !.request = [of |-> "toggle-verification"]]
  /\ DetailUnchangedElsewhere

\* res.ok and a body: setUser from the body, the modal closes, loadData is
\* awaited.
ToggleVerificationOk ==
  /\ detail.mounted
  /\ requests.patch > 0
  /\ \E verified \in BOOLEAN :
       detail' = [detail EXCEPT !.user.verifiedByAdmin = verified,
                                !.showPasswordModal = FALSE,
                                !.password = FALSE,
                                !.loading = TRUE]
  /\ requests' = [requests EXCEPT
                    !.patch = @ - 1,
                    !.loadData =
                       Plus(@, [id |-> detail.id, origin |-> "toggle"])]
  /\ sent' = [Quiet EXCEPT
                !.response = [of |-> "toggle-verification", ok |-> TRUE]]
  /\ DetailUnchangedElsewhere

\* A non-ok answer, a throw, or a body that cannot be read: a toast, then
\* the finally block.
ToggleVerificationFailed ==
  /\ detail.mounted
  /\ requests.patch > 0
  /\ detail' = [detail EXCEPT !.isTogglingVerification = FALSE]
  /\ requests' = [requests EXCEPT !.patch = @ - 1]
  /\ sent' = [Quiet EXCEPT
                !.response = [of |-> "toggle-verification", ok |-> FALSE]]
  /\ DetailUnchangedElsewhere

\* The awaited loadData returns with the user; the finally block runs.
ToggleVerificationDone ==
  /\ detail.mounted
  /\ \E req \in BagToSet(requests.loadData), verified \in BOOLEAN :
       /\ req.origin = "toggle"
       /\ detail' = [detail EXCEPT !.user = UserOf(req.id, verified),
                                   !.loading = FALSE,
                                   !.isTogglingVerification = FALSE]
       /\ requests' = [requests EXCEPT !.loadData = Minus(@, req)]
       /\ sent' = [Quiet EXCEPT !.response = [of |-> "user", id |-> req.id]]
  /\ DetailUnchangedElsewhere

\* ---- the route, the tabs and the applied-jobs list

\* The router takes the mounted page to another user's path: the [id] effect
\* calls loadData, which sets loading and, on the mentor page, clears jobs.
ChangeRoute ==
  /\ detail.mounted
  /\ requests.ops < MaxMoves
  /\ \E id \in UserIds \ {detail.id} :
       /\ detail' = [detail EXCEPT
                       !.id = id,
                       !.loading = TRUE,
                       !.jobs = IF detail.variant = "mentor" THEN Null ELSE @]
       /\ requests' = [requests EXCEPT
                         !.ops = @ + 1,
                         !.loadData =
                            Plus(@, [id |-> id, origin |-> "effect"])]
  /\ sent' = Quiet
  /\ DetailUnchangedElsewhere

\* A tab button: the [user?.id, activeTab] effect loads the tab's list.
SwitchTab ==
  /\ PageShown /\ NoModal
  /\ requests.ops < MaxMoves
  /\ \E tab \in {SessionsTab(detail), "jobs"} \ {detail.activeTab} :
       /\ detail' = [detail EXCEPT
                       !.activeTab = tab,
                       !.jobsLoading = @ \/ tab = "jobs",
                       !.loadingSessions = @ \/ tab # "jobs"]
       /\ requests' = [requests EXCEPT
                         !.ops = @ + 1,
                         !.jobs = IF tab = "jobs"
                                  THEN Plus(@, JobsRequest(detail,
                                                           detail.jobsPage))
                                  ELSE @,
                         !.sessions = IF tab = "jobs" THEN @ ELSE @ + 1]
  /\ sent' = Quiet
  /\ DetailUnchangedElsewhere

\* jobsPage after the effects that follow a change of timeFilter to filter.
PageAfterFilter(d, filter) ==
  IF d.variant = "mentor"
  THEN IF filter # "all" /\ d.jobsPage # 1 THEN 1 ELSE d.jobsPage
  ELSE 1

\* The loadJobs calls of the effects that follow a change of timeFilter.
\* Mentor: loadJobs(jobsPage) of the [jobsPage, timeFilter] effect, and once
\* more after setJobsPage(1) has changed the page.  Admin: loadJobs(1) of
\* the [timeFilter] effect, and loadJobs(jobsPage) of the
\* [user?.id, jobsPage, activeTab] effect after the page has changed.
JobsAfterFilter(d, filter) ==
  LET e == [d EXCEPT !.timeFilter = filter]
      first == IF d.variant = "mentor" THEN d.jobsPage ELSE 1
      page == PageAfterFilter(d, filter)
  IN Plus(IF page # d.jobsPage THEN SetToBag({JobsRequest(e, page)})
          ELSE EmptyBag,
          JobsRequest(e, first))

\* onTimeFilterChange of the job statistics, shown in the jobs tab.
SetTimeFilter ==
  /\ PageShown /\ NoModal
  /\ detail.activeTab = "jobs"
  /\ requests.ops < MaxMoves
  /\ \E filter \in TimeFilters \ {detail.timeFilter} :
       /\ detail' = [detail EXCEPT
                       !.timeFilter = filter,
                       !.jobsPage = PageAfterFilter(detail, filter),
                       !.jobsLoading = TRUE]
       /\ requests' = [requests EXCEPT
                         !.ops = @ + 1,
                         !.jobs = @ (+) JobsAfterFilter(detail, filter)]
  /\ sent' = Quiet
  /\ DetailUnchangedElsewhere

\* onPageChange of the pagination under the listed jobs.
SetJobsPage ==
  /\ PageShown /\ NoModal
  /\ detail.activeTab = "jobs"
  /\ ~detail.jobsLoading /\ detail.jobs # Null
  /\ requests.ops < MaxMoves
  /\ \E page \in (1..MaxPage) \ {detail.jobsPage} :
       /\ detail' = [detail EXCEPT !.jobsPage = page, !.jobsLoading = TRUE]
       /\ requests' = [requests EXCEPT
                         !.ops = @ + 1,
                         !.jobs = Plus(@, JobsRequest(detail, page))]
  /\ sent' = Quiet
  /\ DetailUnchangedElsewhere

\* loadJobs from an ok answer with a body on: setJobs(data.jobs || []).
JobsReturnOk ==
  /\ detail.mounted
  /\ \E req \in BagToSet(requests.jobs) :
       /\ detail' = [detail EXCEPT !.jobs = JobsOf(req),
                                   !.jobsLoading = FALSE]
       /\ requests' = [requests EXCEPT !.jobs = Minus(@, req)]
       /\ sent' = [Quiet EXCEPT !.response = [of |-> "jobs", id |-> req.id]]
  /\ DetailUnchangedElsewhere

\* loadJobs after a non-ok answer or a throw: the mentor page clears the
\* list, the admin page leaves it.
JobsReturnFailed ==
  /\ detail.mounted
  /\ \E req \in BagToSet(requests.jobs) :
       /\ detail' = [detail EXCEPT
                       !.jobs = IF detail.variant = "mentor" THEN Null ELSE @,
                       !.jobsLoading = FALSE]
       /\ requests' = [requests EXCEPT !.jobs = Minus(@, req)]
       /\ sent' = [Quiet EXCEPT !.response = [of |-> "jobs", id |-> req.id]]
  /\ DetailUnchangedElsewhere

\* A detail page is opened for user A, signed in as an admin or not.
DetailInit ==
  /\ \E variant \in DetailVariants, isAdmin \in BOOLEAN :
       detail = DetailMounted(variant, "A", isAdmin)
  /\ requests = [NoRequests EXCEPT
                   !.loadData = SetToBag({[id |-> "A", origin |-> "effect"]})]
  /\ sent = Quiet

\* ------------------------------------------------------------- JobStats
\*
\* One render of JobStats.  An instant is a number of half days, counted
\* from the midnight that starts today: 0 and 1 are today's morning and
\* afternoon, -1 is yesterday's afternoon.  The browser's time zone is UTC,
\* so the local days of setDate and setHours are the days of toISOString.

\* The jobs of the list given to the component.
MaxJobs == 2

\* The days before today on which a job can have been applied.
MaxAge == 31

\* The largest daily goal a user record carries.
MaxGoal == 2

\* date.toISOString().split('T')[0]: the day an instant falls on, 0 today.
DayOf(t) == t \div 2

\* new Date('YYYY-MM-DD'): the midnight that starts the day.
DateOf(day) == 2 * day

\* date.setHours(0, 0, 0, 0)
StartOfDay(t) == DateOf(DayOf(t))

\* date.setHours(23, 59, 59, 999)
EndOfDay(t) == DateOf(DayOf(t)) + 1

\* date.setDate(date.getDate() + n), and Date.now() + n * 24 * 60 * 60 * 1000
AddDays(t, n) == t + 2 * n

\* The appliedDate values of the valid jobs.
AppliedDates == DateOf(-MaxAge)..1

\* The arrays of valid jobs (with id and appliedDate), each job by its
\* appliedDate.
JobLists == UNION { [1..n -> AppliedDates] : n \in 0..MaxJobs }

\* The goalPerDay of the user record.
GoalsPerDay == (-1)..MaxGoal

\* goalPerDay={user.goalPerDay || 3} of the two detail pages.
GoalProp(goal) == IF goal = 0 THEN 3 ELSE goal

\* getFilteredJobs
GetFilteredJobs(jobs, timeFilter, now) ==
  IF timeFilter = "all" THEN jobs
  ELSE LET back == IF timeFilter = "30days" THEN 30 ELSE 7
           filterDate == StartOfDay(AddDays(now, -back))
       IN SelectSeq(jobs, LAMBDA jobDate : jobDate >= filterDate)

\* jobsByDate[date] || 0, and dateCounts[date] || 0
CountOn(jobs, day) == Cardinality({ i \in 1..Len(jobs) : DayOf(jobs[i]) = day })

\* Object.keys(dateCounts)
JobDays(jobs) == { DayOf(jobs[i]) : i \in 1..Len(jobs) }

\* dates[0] of the sorted keys
FirstDay(jobs) == CHOOSE day \in JobDays(jobs) : \A d \in JobDays(jobs) : day <= d

\* maxDays of getJobsPerDayData
MaxDaysOf(timeFilter) == IF timeFilter = "7days" THEN 7 ELSE 30

\* The while loop of getJobsPerDayData.
RECURSIVE JobsPerDayLoop(_, _, _, _, _)
JobsPerDayLoop(jobs, currentDate, endDate, maxDays, result) ==
  IF currentDate <= endDate /\ Len(result) < maxDays
  THEN JobsPerDayLoop(jobs, AddDays(currentDate, 1), endDate, maxDays,
         Append(result, [date |-> DayOf(currentDate),
                         applications |-> CountOn(jobs, DayOf(currentDate))]))
  ELSE result

\* getJobsPerDayData over the filtered jobs.
GetJobsPerDayData(jobs, timeFilter, now) ==
  IF JobDays(jobs) = {} THEN << >>
  ELSE LET startDate ==
             IF timeFilter = "7days" THEN StartOfDay(AddDays(now, -7))
             ELSE IF timeFilter = "30days" THEN StartOfDay(AddDays(now, -30))
             ELSE DateOf(FirstDay(jobs))
       IN JobsPerDayLoop(jobs, startDate, EndOfDay(now),
                         MaxDaysOf(timeFilter), << >>)

\* The filtered jobs of the render.
FilteredJobs == GetFilteredJobs(jobStats.jobs, jobStats.timeFilter, jobStats.now)

\* A detail page renders JobStats with the jobs, the goal and the filter it
\* holds, in the morning or in the afternoon.
JobStatsInit ==
  \E jobs \in JobLists, goal \in GoalsPerDay, timeFilter \in TimeFilters,
     now \in {0, 1} :
    jobStats = [jobs |-> jobs, goalPerDay |-> GoalProp(goal),
                timeFilter |-> timeFilter, now |-> now,
                pc |-> "render", currentStreak |-> 0, currentDate |-> now,
                jobsPerDay |-> << >>]

JobStatsUnchangedElsewhere ==
  UNCHANGED << widgetVars, routeVars, myMentor, detailVars >>

\* calculateStreakData up to its while loop.
CalculateStreakData ==
  /\ jobStats # Null /\ jobStats.pc = "render"
  /\ jobStats' =
       [jobStats EXCEPT
          !.pc = IF Len(FilteredJobs) = 0 THEN "jobsPerDay" ELSE "streak",
          !.currentStreak = 0,
          !.currentDate = jobStats.now]
  /\ JobStatsUnchangedElsewhere

\* One pass of the while (true) loop of calculateStreakData.  The passes
\* are followed as far back as the day before the oldest job can be.
StreakLoop ==
  /\ jobStats # Null /\ jobStats.pc = "streak"
  /\ DayOf(jobStats.currentDate) >= -(MaxAge + 1)
  /\ LET dateStr == DayOf(jobStats.currentDate)
         today == DayOf(jobStats.now)
         count == CountOn(FilteredJobs, dateStr)
     IN jobStats' =
          IF count >= jobStats.goalPerDay
          THEN [jobStats EXCEPT
                  !.currentStreak = @ + 1,
                  !.currentDate = AddDays(@, -1)]
          ELSE IF dateStr = today /\ count > 0
          THEN [jobStats EXCEPT !.currentStreak = @ + 1, !.pc = "jobsPerDay"]
          ELSE [jobStats EXCEPT !.pc = "jobsPerDay"]
  /\ JobStatsUnchangedElsewhere

\* getJobsPerDayData, called once calculateStreakData has returned.
JobsPerDayData ==
  /\ jobStats # Null /\ jobStats.pc = "jobsPerDay"
  /\ jobStats' =
       [jobStats EXCEPT
          !.jobsPerDay =
             GetJobsPerDayData(FilteredJobs, jobStats.timeFilter, jobStats.now),
          !.pc = "rendered"]
  /\ JobStatsUnchangedElsewhere

\* ------------------------------------------------------- specifications

\* The app outside the mentor routes: no guard is mounted.
RoutesUnmounted ==
  /\ location = "/my-mentor"
  /\ localStorage = [mentorToken |-> "null", mentorInfo |-> Null]
  /\ protectedRoute = [ProtectedMounted EXCEPT !.mounted = FALSE]
  /\ publicRoute = [PublicMounted EXCEPT !.mounted = FALSE]
  /\ cookie = FALSE
  /\ leaving = "none"

\* No user detail page is mounted.
DetailNotFollowed ==
  /\ detail = Null
  /\ requests = Null
  /\ sent = Null

\* No JobStats render is followed.
JobStatsNotFollowed == jobStats = Null

\* The app at /my-mentor, the progress widget mounted.
Init ==
  /\ UserProgressInit
  /\ RoutesUnmounted
  /\ MyMentorNotFollowed
  /\ DetailNotFollowed
  /\ JobStatsNotFollowed

\* The app opened at a mentor path; the widget is given no scheduled calls.
InitRoutes ==
  /\ UserProgressInit
  /\ scheduledCalls = << >>
  /\ RoutesInit
  /\ MyMentorNotFollowed
  /\ DetailNotFollowed
  /\ JobStatsNotFollowed

\* The app opened at /my-mentor: MyMentor awaits the auth state.
InitMyMentor ==
  /\ UserProgressInit
  /\ scheduledCalls = << >>
  /\ RoutesUnmounted
  /\ MyMentorInit
  /\ DetailNotFollowed
  /\ JobStatsNotFollowed

Next ==
  \/ LoadStatusOk
  \/ LoadStatusNoToken
  \/ LoadStatusFailed
  \/ HandleBookCall
  \/ BookCallOk
  \/ BookCallNoToken
  \/ BookCallFailed
  \/ CallScheduled
  \/ CallUnscheduled

\* Every response carries every flag.
Spec == Init /\ [][Next]_vars

NextAbsent ==
  \/ LoadStatusOk
  \/ LoadStatusPartial
  \/ LoadStatusNoToken
  \/ LoadStatusFailed
  \/ HandleBookCall
  \/ BookCallOk
  \/ BookCallNoToken
  \/ BookCallFailed

\* Responses may leave flags out.
SpecAbsent == Init /\ [][NextAbsent]_vars

NextProgress ==
  \/ LoadStatusMilestones
  \/ LoadStatusNoToken
  \/ LoadStatusFailed
  \/ HandleBookCall
  \/ BookCallOk
  \/ BookCallNoToken
  \/ BookCallFailed

\* Responses carry any combination of the milestone flags, and a re-fetch
\* can find any other combination of them.
SpecProgress == Init /\ [][NextProgress]_vars

NextRoutes ==
  \/ ProtectedCheckAuth
  \/ PublicCheckAuth
  \/ AdminNoticeLeave
  \/ ApprovalNoticeLogin
  \/ ApprovalNoticeLogout
  \/ ApprovalNoticeLogoutReturns
  \/ PageNavigates
  \/ PageLogout
  \/ EnterMentorPath

\* The mentor routes and their guards.
SpecRoutes == InitRoutes /\ [][NextRoutes]_vars

\* The mentor routes with every fetch settling: a checkAuth that awaits its
\* response gets one, and so does the Logout of the approval notice.
SpecRoutesLive ==
  /\ InitRoutes
  /\ [][NextRoutes]_vars
  /\ WF_vars(ProtectedCheckAuth)
  /\ WF_vars(PublicCheckAuth)
  /\ WF_vars(ApprovalNoticeLogoutReturns)

NextMyMentor ==
  \/ MyMentorLoadData
  \/ MyMentorNoUser
  \/ MyMentorStatusOk
  \/ MyMentorStatusFailed
  \/ MyMentorLoaded

\* MyMentor's loadData and the scheduledCalls it hands to the widget.
SpecMyMentor == InitMyMentor /\ [][NextMyMentor]_vars

\* The app at a user detail page.
InitDetail ==
  /\ UserProgressInit
  /\ scheduledCalls = << >>
  /\ RoutesUnmounted
  /\ MyMentorNotFollowed
  /\ DetailInit
  /\ JobStatsNotFollowed

NextSchedule ==
  \/ LoadDataOk
  \/ LoadDataFailed
  \/ SessionsReturn
  \/ OpenScheduleForm
  \/ CloseScheduleForm
  \/ SelectCallNumber
  \/ FillScheduleForm
  \/ EligibleCallsReturn
  \/ HandleScheduleCall
  \/ ScheduleCallOk
  \/ ScheduleCallFailed
  \/ ScheduleReloadsSessions
  \/ ScheduleCallDone
  \/ OpenDeleteModal
  \/ CloseDeleteModal
  \/ HandleDeleteSession
  \/ DeleteSessionOk
  \/ DeleteSessionFailed
  \/ DeleteReloadsEligible
  \/ DeleteSessionDone
  \/ OpenPasswordModal
  \/ ClosePasswordModal
  \/ TypePassword
  \/ HandleToggleVerification
  \/ ToggleVerificationOk
  \/ ToggleVerificationFailed
  \/ ToggleVerificationDone

\* A detail page of one user: scheduling, deleting sessions, verification.
SpecSchedule == InitDetail /\ [][NextSchedule]_vars

NextBrowse ==
  \/ LoadDataOk
  \/ LoadDataFailed
  \/ SessionsReturn
  \/ ChangeRoute
  \/ SwitchTab
  \/ SetTimeFilter
  \/ SetJobsPage
  \/ JobsReturnOk
  \/ JobsReturnFailed

\* A detail page taken from user to user: tabs, filter, pages of jobs.
SpecBrowse == InitDetail /\ [][NextBrowse]_vars

\* A detail page's jobs tab renders JobStats.
InitStats ==
  /\ UserProgressInit
  /\ scheduledCalls = << >>
  /\ RoutesUnmounted
  /\ MyMentorNotFollowed
  /\ DetailNotFollowed
  /\ JobStatsInit

NextStats ==
  \/ CalculateStreakData
  \/ StreakLoop
  \/ JobsPerDayData

SpecStats == InitStats /\ [][NextStats]_vars

\* ================================================================ claims

\* The numbers in the scheduled list the widget holds.
Nums == ScheduledCallNumbers(scheduledCalls)

\* Stage n is neither completed nor scheduled.
Open(n) ==
  /\ status[CompletedAtKeys[n]] = "null"
  /\ ~(\E i \in 1..Len(scheduledCalls) : scheduledCalls[i].callNumber = n)

SomeOpen == \E n \in 1..5 : Open(n)

\* The lowest-numbered stage that is neither completed nor scheduled.
LowestOpen == CHOOSE n \in 1..5 : Open(n) /\ \A m \in 1..(n - 1) : ~Open(m)

\* The number of the selected stage.
Selected == view.nextMentorCall.number

\* Stage n's backend eligible flag is true.
EligibleFlag(n) == status[EligibleKeys[n]] = "true"

\* Table A: stage -> required milestones.
TableA ==
  << << "orientation", "resumeRebuilding" >>,
     << "resumeConfirmed", "portfolioBuildingAndConfirmed" >>,
     << "techDistributionAndExtension" >>,
     << "cheatSheetBuiltOut", "hasAppliedEnoughJobs" >>,
     << >> >>

\* Every Table A milestone of stage n is true.
TableADone(n) == \A i \in 1..Len(TableA[n]) : status[TableA[n][i]] = "true"

\* C1: whenever some stage is neither completed nor scheduled, the selected
\* stage is the lowest-numbered such stage, whatever its eligible flag and
\* its milestone flags are.  The code does not keep this: the scan goes on
\* past a stage that is eligible with a milestone still false.
C1_SelectsLowestOpen ==
  (status # Null /\ SomeOpen) => Selected = LowestOpen

\* C2: isEligible is true exactly when the selected stage's eligible flag is
\* true and the displayed checklist is empty.  The code does not keep this
\* for stage 5, which it selects without a requiredMilestones list.
C2_IsEligibleIff ==
  status # Null =>
    (Truthy(view.isEligible)
       <=> (EligibleFlag(Selected) /\ view.currentMilestones = << >>))

\* C3: when no stage is both not completed and not scheduled, the selected
\* stage is 1, isBooked says whether stage 1 has completedAt set and
\* isScheduled says whether stage 1 is in the scheduled list.
C3_FallsBackToStageOne ==
  (status # Null /\ ~SomeOpen) =>
    /\ Selected = 1
    /\ view.isBooked = (status[CompletedAtKeys[1]] # "null")
    /\ view.isScheduled = (\E i \in 1..Len(Nums) : Nums[i] = 1)

\* C3 witness: all five stages are completed and stage 1 is shown as booked.
C3_Witness ==
  /\ status # Null
  /\ \A n \in 1..5 : status[CompletedAtKeys[n]] # "null"
  /\ Selected = 1
  /\ view.isBooked

\* C4: isBooked or isScheduled is true only via the final fallback (every
\* stage completed or scheduled, stage 1 selected); whenever some stage is
\* neither completed nor scheduled, so is the selected stage.
C4_BookedOrScheduledOnlyByFallback ==
  status # Null =>
    /\ (view.isBooked \/ view.isScheduled) => (~SomeOpen /\ Selected = 1)
    /\ SomeOpen => Open(Selected)

\* C4 witness: stage 1 is scheduled and not completed, every other stage is
\* completed, and the fallback shows stage 1 as scheduled.
C4_Witness ==
  /\ status # Null
  /\ view.isScheduled
  /\ ~view.isBooked
  /\ Selected = 1

\* C5: for a stage s in 1..4 that is the lowest-numbered stage neither
\* completed nor scheduled, if s's eligible flag is true and all of s's
\* Table A milestones are true, then s is selected, the checklist is empty,
\* isEligible is true and isBooked and isScheduled are false.
C5_ReadyStageSelected ==
  \A s \in 1..4 :
    (status # Null /\ SomeOpen /\ LowestOpen = s /\ EligibleFlag(s) /\ TableADone(s))
      => /\ Selected = s
         /\ view.currentMilestones = << >>
         /\ view.isEligible = "true"
         /\ ~view.isBooked
         /\ ~view.isScheduled

\* C5 witness: stage 1 is completed, stage 2 is eligible with both of its
\* milestones true, and stage 2 is shown as ready.
C5_Witness ==
  /\ status # Null
  /\ SomeOpen
  /\ LowestOpen = 2
  /\ EligibleFlag(2)
  /\ TableADone(2)
  /\ Selected = 2
  /\ view.isEligible = "true"

\* C6: for a stage s in 1..4 that is the lowest-numbered stage neither
\* completed nor scheduled, if s's eligible flag is false, then s is
\* selected, the checklist is s's Table A milestones in Table A order, each
\* with the current value of its flag, and isEligible is false.
C6_WorkingTowardStage ==
  \A s \in 1..4 :
    (status # Null /\ SomeOpen /\ LowestOpen = s /\ status[EligibleKeys[s]] = "false")
      => /\ Selected = s
         /\ Len(view.currentMilestones) = Len(TableA[s])
         /\ \A i \in 1..Len(TableA[s]) :
              /\ view.currentMilestones[i].id = TableA[s][i]
              /\ view.currentMilestones[i].completed = (status[TableA[s][i]] = "true")
         /\ ~Truthy(view.isEligible)

\* C6 witness: stage 1 is not eligible although both of its milestones are
\* true; it is selected with both milestones listed as completed.
C6_Witness ==
  /\ status # Null
  /\ Open(1)
  /\ status[EligibleKeys[1]] = "false"
  /\ TableADone(1)
  /\ Selected = 1
  /\ Len(view.currentMilestones) = 2
  /\ view.currentMilestones[1].completed
  /\ ~Truthy(view.isEligible)

\* The status with every missing flag sent as false.
AbsentAsFalse ==
  [k \in StatusKeys |-> IF status[k] = "undefined" THEN "false" ELSE status[k]]

\* C7: for every non-null status, with flags true, false or absent, and
\* every scheduled list, the computation raises nothing and yields one
\* selected stage with a number in 1..5, and what it yields is what it yields
\* for the same status with the absent flags false.
C7_TotalAndAbsentAsFalse ==
  status # Null =>
    /\ ~view.raised
    /\ view.nextMentorCall # Null
    /\ Selected \in 1..5
    /\ LET other == ComputeView(AbsentAsFalse, Nums)
       IN /\ ~other.raised
          /\ Selected = other.nextMentorCall.number
          /\ view.currentMilestones = other.currentMilestones
          /\ Truthy(view.isEligible) = Truthy(other.isEligible)
          /\ view.isBooked = other.isBooked
          /\ view.isScheduled = other.isScheduled
          /\ view.progressPercentage = other.progressPercentage
          /\ view.nextMentorCall.dynamicMessage = other.nextMentorCall.dynamicMessage

\* C7 witness: stages 1 to 4 are completed or scheduled and stage 5's
\* eligible flag is absent; stage 5 is selected and isEligible is the
\* undefined that `undefined && ...` leaves.
C7_Witness ==
  /\ status # Null
  /\ status[EligibleKeys[5]] = "undefined"
  /\ ~view.raised
  /\ Selected = 5
  /\ view.isEligible = "undefined"

\* The seven Table A milestone keys.
TableAKeys ==
  { "orientation", "resumeRebuilding", "resumeConfirmed",
    "portfolioBuildingAndConfirmed", "techDistributionAndExtension",
    "cheatSheetBuiltOut", "hasAppliedEnoughJobs" }

\* The number of them that are true in a status.
TrueCount(s) == Cardinality({ k \in TableAKeys : s[k] = "true" })

\* C8: progressPercentage is 100 times the number of true flags among the
\* seven Table A milestone keys, divided by 7, whatever the eligible flags,
\* the completedAt values, the scheduled list and the selected stage are.
C8_ProgressIsShareOfSeven ==
  status # Null =>
    view.progressPercentage.num * 7
      = 100 * TrueCount(status) * view.progressPercentage.den

\* C8 witness: all seven flags are true, stage 1 is completed, a call is
\* scheduled, and the progress is 700 / 7.
C8_Witness ==
  /\ status # Null
  /\ TrueCount(status) = 7
  /\ status[CompletedAtKeys[1]] # "null"
  /\ Len(scheduledCalls) = 1
  /\ view.progressPercentage = [num |-> 700, den |-> 7]

\* p <= q for two quotients with positive denominators.
Leq(p, q) == p.num * q.den <= q.num * p.den

\* C9: from one re-computation to the next, when no milestone flag that was
\* true has stopped being true, progressPercentage has not decreased, and
\* when the snapshot is unchanged it is the same.
C9_ProgressNeverDecreases ==
  [][ (status # Null /\ status' # Null)
        => /\ (\A k \in TableAKeys : status[k] = "true" => status'[k] = "true")
                => Leq(view.progressPercentage, view'.progressPercentage)
           /\ status' = status
                => view'.progressPercentage = view.progressPercentage ]_vars

\* C9 witness: a snapshot with some but not all of the flags true is held,
\* its progress is computed, and the re-fetch that replaces it is awaited.
C9_Witness ==
  /\ status # Null
  /\ pc = "reload"
  /\ TrueCount(status) \in 1..6
  /\ view.progressPercentage.num = 100 * TrueCount(status)

\* The labels of each stage's Table A milestones, comma-joined.
TableALabels ==
  << "Orientation Complete, Resume Rebuilt",
     "Resume Confirmed, Portfolio Ready",
     "Tech Stack Defined",
     "Cheat Sheet Created, Jobs Applied" >>

OrdinalWords == << "first", "second", "third", "fourth" >>

\* C10: the message of a selected stage 5 is one fixed text; the message of
\* a selected stage 1..4 names the stage's ordinal and lists the labels of
\* the displayed checklist, comma-joined in Table A order.
C10_MessageOfSelectedStage ==
  status # Null =>
    /\ Selected = 5 =>
         view.nextMentorCall.dynamicMessage
           = "Congratulations! You've completed all the prerequisites. You're now ready for your final mentor call. Our team has ensured everything is in place for this milestone conversation about your career journey."
    /\ Selected \in 1..4 =>
         /\ view.currentMilestones # << >> =>
              [i \in 1..Len(view.currentMilestones) |-> view.currentMilestones[i].id]
                = TableA[Selected]
         /\ view.nextMentorCall.dynamicMessage
              = "Before you meet your mentor for your " \o OrdinalWords[Selected]
                \o " mentor call, our team will ensure that these milestones are completed: "
                \o (IF view.currentMilestones = << >> THEN "" ELSE TableALabels[Selected])
                \o ". We're here to guide you through each step and ensure everything is in place for a productive mentoring session."

\* C10 witness: stage 1 is selected and not eligible, and its message lists
\* 'Orientation Complete, Resume Rebuilt'.
C10_Witness ==
  /\ status # Null
  /\ Selected = 1
  /\ status[EligibleKeys[1]] = "false"
  /\ view.nextMentorCall.dynamicMessage
       = "Before you meet your mentor for your first mentor call, our team will ensure that these milestones are completed: Orientation Complete, Resume Rebuilt. We're here to guide you through each step and ensure everything is in place for a productive mentoring session."

\* The held status with the fields the computation is said not to read
\* (finalReview) put to a fresh candidate's value.
ReadFields ==
  [k \in StatusKeys |-> IF k = "finalReview" THEN "false" ELSE status[k]]

\* The scheduled numbers as a set, listed in ascending order.
RECURSIVE Ascending(_)
Ascending(S) ==
  IF S = {} THEN << >>
  ELSE LET lo == CHOOSE n \in S : \A m \in S : n <= m
       IN << lo >> \o Ascending(S \ {lo})

\* C11: the result held after any sequence of snapshots and lists is the
\* result of one evaluation on the Table A flags, the eligible flags, the
\* completedAt values and the set of scheduled numbers of the last one:
\* stage, checklist, isEligible, isBooked, isScheduled and progress do not
\* depend on finalReview, on the order of the list, or on what was
\* evaluated before.
C11_FunctionOfLastSnapshot ==
  status # Null =>
    LET other == ComputeView(ReadFields, Ascending(Range(Nums)))
    IN /\ Selected = other.nextMentorCall.number
       /\ view.currentMilestones = other.currentMilestones
       /\ view.isEligible = other.isEligible
       /\ view.isBooked = other.isBooked
       /\ view.isScheduled = other.isScheduled
       /\ view.progressPercentage = other.progressPercentage

\* C11 witness: the snapshot held after a fetch has returned has finalReview
\* true, and two calls are scheduled with the later stage first in the list.
C11_Witness ==
  /\ status # Null
  /\ status["finalReview"] = "true"
  /\ Len(scheduledCalls) = 2
  /\ scheduledCalls[1].callNumber > scheduledCalls[2].callNumber
  /\ pc = "idle"
  /\ Selected \in 1..5

\* C12: the held status changes only in a step that applies a status-fetch
\* response; a successful book-call response issues loadStatus and leaves
\* booking true until that loadStatus has returned; a failed booking (no
\* token, response not ok, throw) leaves the status as it is, issues no
\* re-fetch and puts booking back to false.
C12_BookingNeverChangesStatusLocally ==
  [][ /\ status' # status => pc \in {"load", "reload"} /\ pc' = "idle"
      /\ HandleBookCall => status' = status /\ loading' = loading
      /\ BookCallOk =>
           status' = status /\ booking' /\ loading' /\ pc' = "reload"
      /\ (BookCallNoToken \/ BookCallFailed) =>
           status' = status /\ ~booking' /\ loading' = loading /\ pc' = "idle"
      /\ (booking /\ ~booking') => pc \in {"book", "reload"}
      /\ (booking /\ pc = "reload" /\ ~booking') => ~loading' /\ pc' = "idle"
    ]_vars

\* C12 witness: a booking of the selected stage succeeded and its re-fetch
\* is awaited with booking still true.
C12_Witness ==
  /\ pc = "reload"
  /\ booking
  /\ loading
  /\ bookRequest = Selected

\* The outcome of a check that is an ok response with an adminMentor.
Account(res) == res # Null /\ res.kind = "ok" /\ res.adminMentor # Null

\* What C17 says of a state of ProtectedMentorRoute.
C17_Guarded ==
  /\ ProtectedRenders = "children" =>
       /\ Account(protectedRoute.res)
       /\ protectedRoute.res.adminMentor.isAdmin # "true"
       /\ protectedRoute.res.adminMentor.verifiedByAdmin = "true"
  /\ (protectedRoute.mounted /\ protectedRoute.res = Null) =>
       ProtectedRenders = "spinner"
  /\ (protectedRoute.res # Null /\ ~Account(protectedRoute.res)) =>
       /\ protectedRoute.isAuthenticated = "false"
       /\ ProtectedRenders = "unmounted"
  /\ (protectedRoute.mounted /\ Account(protectedRoute.res)
        /\ protectedRoute.res.adminMentor.isAdmin = "true") =>
       ProtectedRenders = "adminNotice"

\* C17: ProtectedMentorRoute shows its children only after an ok response
\* of /api/mentor/me for an account that is no admin and is verifiedByAdmin,
\* and the spinner while the check is pending; a response that is not ok,
\* or a throw, sets isAuthenticated to false and redirects to /mentor with
\* the children never shown; an admin gets the admin notice, verified or not.
C17_ProtectedRouteGuards ==
  [][ /\ C17_Guarded
      /\ C17_Guarded'
      /\ (protectedRoute.res = Null /\ protectedRoute'.res # Null
            /\ ~Account(protectedRoute'.res)) =>
           location' = "/mentor" /\ PublicRenders' = "spinner"
    ]_vars

\* C17 witness: a verified mentor's check passed and the user page is shown.
C17_Witness ==
  /\ ProtectedRenders = "children"
  /\ location = "/mentor/users/:id"
  /\ protectedRoute.res.adminMentor = [isAdmin |-> "false", verifiedByAdmin |-> "true"]
  /\ localStorage.mentorInfo = protectedRoute.res.adminMentor

\* The response of the check was ok (res.ok), its body readable or not.
RespondedOk(res) == res # Null /\ res.kind \in {"ok", "unreadable"}

C16_Derived ==
  LET list == myMentor.scheduledCalls
      fetched == myMentor.fetched
  IN /\ fetched = Null => list = << >>
     /\ fetched # Null =>
          \A n \in 1..5 :
            (\E i \in 1..Len(list) : list[i].callNumber = n)
              <=> (fetched[n].scheduledAt # 0 /\ fetched[n].completedAt = "null")
     /\ \A i \in 1..Len(list) :
          /\ list[i].callNumber \in 1..5
          /\ list[i].scheduledAt = fetched[list[i].callNumber].scheduledAt
     /\ \A i, j \in 1..Len(list) :
          /\ i # j => list[i].callNumber # list[j].callNumber
          /\ i < j => list[i].scheduledAt <= list[j].scheduledAt
     /\ ScheduledCallNumbers(scheduledCalls)
          = [i \in 1..Len(list) |-> list[i].callNumber]

\* C16: the list MyMentor hands to the widget holds stage n exactly when
\* the status it fetched has the stage's scheduled time set and its
\* completedAt not set, once per stage, in ascending order of the scheduled
\* times; when the status fetch fails the list stays as it was.
C16_ScheduledCallsDerived ==
  [][ /\ C16_Derived'
      /\ (myMentor.pc = "status" /\ myMentor'.fetched = myMentor.fetched) =>
           /\ myMentor'.scheduledCalls = myMentor.scheduledCalls
           /\ scheduledCalls' = scheduledCalls
    ]_vars

\* C16 witness: stage 3 is scheduled before stage 1, and stage 2 has a
\* scheduled time but is completed: the list is stage 3, then stage 1.
C16_Witness ==
  /\ myMentor.pc = "idle"
  /\ myMentor.fetched # Null
  /\ myMentor.fetched[2].scheduledAt # 0
  /\ myMentor.fetched[2].completedAt # "null"
  /\ Len(myMentor.scheduledCalls) = 2
  /\ myMentor.scheduledCalls[1].callNumber = 3
  /\ myMentor.scheduledCalls[2].callNumber = 1
  /\ ScheduledCallNumbers(scheduledCalls) = << 3, 1 >>

\* The answer an eligible-calls request received in this step, if any.
EligibleAnswer(s) ==
  IF s.response # Null /\ s.response.of = "eligible-calls"
  THEN {s.response.res}
  ELSE {}

\* C13: after every eligible-calls request completes, the eligibleCalls the
\* page holds is the list the response carried if it was ok (empty if the
\* field is absent) and empty if it was not ok or the request threw, and the
\* call numbers the select offers are exactly that list.
C13_EligibleCallsAreTheResponse ==
  [][\A res \in EligibleAnswer(sent') :
       LET carried == IF res.kind = "ok"
                      THEN IF "eligibleCalls" \in DOMAIN res.body
                           THEN res.body.eligibleCalls
                           ELSE << >>
                      ELSE << >>
       IN /\ detail'.eligibleCalls = carried
          /\ CallNumberOptions(detail') = carried]_vars

\* An ok answer with two calls arrives while the modal is open.
C13_Witness ==
  /\ EligibleAnswer(sent) = {[kind |-> "ok",
                              body |-> [eligibleCalls |-> << 2, 1 >>]]}
  /\ detail.eligibleCalls = << 2, 1 >>
  /\ detail.showScheduleForm
  /\ requests.schedule = Null /\ requests.delete = Null

\* The call number of the schedule-call request sent in this step, if any.
ScheduleRequest(s) ==
  IF s.request # Null /\ s.request.of = "schedule-call"
  THEN {s.request.callNumber}
  ELSE {}

\* C19: every schedule-call request carries a callNumber that is in the
\* eligibleCalls held when the form is submitted and that is the value the
\* select displays, whatever the order of eligible-calls loads, modal
\* openings and closings, and schedule and delete completions before it.
C19_SubmitsDisplayedEligibleCall ==
  [][\A n \in ScheduleRequest(sent') :
       /\ Includes(detail.eligibleCalls, n)
       /\ n = SelectValue(detail)]_vars

\* What the step received, as a set of at most one answer.
Answer(s) == IF s.response # Null THEN {s.response} ELSE {}

\* The loadData calls awaited by handleToggleVerification.
ToggleReloads(r) == CopiesIn([id |-> detail.id, origin |-> "toggle"], r.loadData)

\* The step runs the failure path of a handler: nothing is reloaded, no event
\* is dispatched and the form stays as it was filled.
C15_NothingReloaded ==
  /\ requests'.eligible = requests.eligible
  /\ requests'.sessions = requests.sessions
  /\ requests'.loadData = requests.loadData
  /\ sent'.event = "none"
  /\ detail'.scheduleForm = detail.scheduleForm
  /\ detail'.showScheduleForm = detail.showScheduleForm
  /\ detail'.deleteSessionModal = detail.deleteSessionModal
  /\ detail'.password = detail.password
  /\ detail'.showPasswordModal = detail.showPasswordModal

C15_Schedule ==
  /\ \A a \in Answer(sent') :
       a = [of |-> "schedule-call", ok |-> TRUE] =>
         /\ detail'.isScheduling
         /\ requests'.schedule.pc = "eligible"
         /\ sent'.event = "none"
  /\ \A a \in Answer(sent') :
       a = [of |-> "schedule-call", ok |-> FALSE] =>
         /\ ~detail'.isScheduling
         /\ requests'.schedule = Null
         /\ C15_NothingReloaded
  /\ (requests.schedule # Null /\ requests.schedule.pc = "eligible") =>
       /\ detail'.isScheduling
       /\ requests'.schedule # Null =>
            requests'.schedule.pc \in {"eligible", "sessions"}
  /\ (detail.isScheduling /\ ~detail'.isScheduling) =>
       \/ Answer(sent') = {[of |-> "schedule-call", ok |-> FALSE]}
       \/ /\ requests.schedule.pc = "sessions"
          /\ sent'.event = "userStatusUpdated"

C15_Delete ==
  /\ \A a \in Answer(sent') :
       a = [of |-> "delete-session", ok |-> TRUE] =>
         /\ detail'.isDeletingSession
         /\ requests'.delete.pc = "sessions"
         /\ sent'.event = "none"
  /\ \A a \in Answer(sent') :
       a = [of |-> "delete-session", ok |-> FALSE] =>
         /\ ~detail'.isDeletingSession
         /\ requests'.delete = Null
         /\ C15_NothingReloaded
  /\ (requests.delete # Null /\ requests.delete.pc = "sessions") =>
       /\ detail'.isDeletingSession
       /\ requests'.delete # Null =>
            requests'.delete.pc \in {"sessions", "eligible"}
  /\ (detail.isDeletingSession /\ ~detail'.isDeletingSession) =>
       \/ Answer(sent') = {[of |-> "delete-session", ok |-> FALSE]}
       \/ /\ requests.delete.pc = "eligible"
          /\ sent'.event = "userStatusUpdated"

C15_Event ==
  sent'.event = "userStatusUpdated" =>
    \/ /\ requests.schedule # Null /\ requests.schedule.pc = "sessions"
       /\ requests'.schedule = Null
    \/ /\ requests.delete # Null /\ requests.delete.pc = "eligible"
       /\ requests'.delete = Null

C15_Toggle ==
  /\ \A a \in Answer(sent') :
       a = [of |-> "toggle-verification", ok |-> TRUE] =>
         /\ detail.isTogglingVerification
         /\ detail'.isTogglingVerification
         /\ ToggleReloads(requests') = ToggleReloads(requests) + 1
  /\ \A a \in Answer(sent') :
       a = [of |-> "toggle-verification", ok |-> FALSE] =>
         /\ ~detail'.isTogglingVerification
         /\ C15_NothingReloaded
  /\ (detail.isTogglingVerification /\ ~detail'.isTogglingVerification) =>
       \/ Answer(sent') = {[of |-> "toggle-verification", ok |-> FALSE]}
       \/ ToggleReloads(requests') = ToggleReloads(requests) - 1
       \/ ~detail'.mounted

\* C15: every successful mutating action of the detail pages triggers its
\* refresh before its busy flag returns to false: after a successful
\* schedule-call or delete-session the eligible calls and the scheduled
\* sessions are both reloaded and then 'userStatusUpdated' is dispatched,
\* and a successful verification toggle re-runs loadData; after a non-ok
\* answer or a throw nothing is reloaded, no event is dispatched and the form
\* is left as filled.
C15_RefreshBeforeBusyFlagFalls ==
  [][C15_Schedule /\ C15_Delete /\ C15_Event /\ C15_Toggle]_vars

\* The user whose data the step received, if it received a user or a jobs
\* answer.
AnswerFor(s) ==
  IF s.response # Null /\ s.response.of \in {"user", "jobs"}
  THEN {s.response.id}
  ELSE {}

\* C14: an answer that arrives for a view that is no longer the current one
\* (the route's id has changed since the request) never overwrites the state
\* of the page: the user and the jobs it shows stay as they were.
C14_LateAnswerNeverOverwrites ==
  [][\A id \in AnswerFor(sent') :
       (detail'.mounted /\ id # detail.id) =>
         /\ detail'.user = detail.user
         /\ detail'.jobs = detail.jobs]_vars

\* The list that ends up displayed: when a step writes the list of the jobs
\* tab and leaves nothing in flight, the jobs listed are those of the route's
\* user, the page and the filter.
C20_ListShown ==
  ( /\ detail'.mounted /\ detail'.activeTab = "jobs"
    /\ detail'.user # Null /\ detail'.jobs # Null
    /\ detail'.jobs # detail.jobs
    /\ requests'.jobs = EmptyBag /\ requests'.loadData = EmptyBag ) =>
    detail'.jobs = [id |-> detail'.id, page |-> detail'.jobsPage,
                    timeFilter |-> detail'.timeFilter]

\* C20: when timeFilter changes, to any value, 'all' included, with the jobs
\* tab active and the user loaded, jobsPage becomes 1, and the list that ends
\* up displayed is page 1 under the new filter.
C20_FilterChangeResetsPage ==
  [][ /\ detail'.timeFilter # detail.timeFilter => detail'.jobsPage = 1
      /\ C20_ListShown ]_vars

\* C22: every book-call request carries the number of a stage that, in the
\* status and the scheduled list the widget holds when handleBookCall takes
\* the number for the request, has its eligible flag true, all of its Table A
\* milestones true, completedAt not set, and is not in the scheduled list;
\* no request is issued while status is null.
C22_RequestForReadyStage ==
  [][(bookRequest = 0 /\ bookRequest' # 0) =>
       /\ status # Null
       /\ EligibleFlag(bookRequest')
       /\ TableADone(bookRequest')
       /\ Open(bookRequest')]_vars

\* A request for stage 2 is in progress, stage 1 being out of the way.
C22_Witness ==
  /\ pc = "book" /\ bookRequest = 2
  /\ status # Null
  /\ EligibleFlag(2) /\ TableADone(2) /\ Open(2)
  /\ ~Open(1)

\* C23: at most one book-call exchange is in progress: booking is true from
\* the start of handleBookCall until its request and the status re-fetch that
\* follows an ok response have finished, it is false again once the exchange
\* has ended on any path (re-fetch returned, response not ok, throw, no
\* token), and while it is true handleBookCall starts nothing.
C23_OneExchangeAtATime ==
  /\ booking <=> pc \in {"book", "reload"}
  /\ booking <=> bookRequest # 0
  /\ booking => ~ENABLED HandleBookCall

\* An exchange has started and the stage is still one the guard would accept.
C23_Witness ==
  /\ booking /\ pc = "book" /\ ~loading
  /\ view.nextMentorCall # Null /\ Truthy(view.isEligible)

\* The eligible-calls requests in flight: those of the modal effect, and the
\* one a schedule or delete handler awaits.
EligibleInFlight ==
  BagCardinality(requests.eligible)
    + (IF requests.schedule # Null /\ requests.schedule.pc = "eligible"
       THEN 1 ELSE 0)
    + (IF requests.delete # Null /\ requests.delete.pc = "eligible"
       THEN 1 ELSE 0)

\* C24: on a mounted detail page loadingEligibleCalls is true whenever at
\* least one eligible-calls request is in flight, overlapping requests
\* included; it is false only when none is in flight.
C24_LoadingWhileInFlight ==
  detail.mounted => (EligibleInFlight > 0 => detail.loadingEligibleCalls)

\* The step answers the last job-list request in flight, and the list
\* displayed after it is the one that request was made for.
LastJobsAnswer ==
  /\ detail.mounted /\ detail'.mounted
  /\ BagCardinality(requests.jobs) = 1 /\ requests'.jobs = EmptyBag
  /\ detail'.jobs # Null
  /\ \A req \in BagToSet(requests.jobs) : detail'.jobs = JobsOf(req)

\* C25: once the job-list requests in flight have all been answered, the
\* jobs list and pagination displayed are those returned for the current
\* jobsPage and the current timeFilter, whatever the order of the answers.
C25_SettledListIsCurrent ==
  [][LastJobsAnswer =>
       /\ detail'.jobs.page = detail'.jobsPage
       /\ detail'.jobs.timeFilter = detail'.timeFilter]_vars

\* C27: after Logout or Go to Login was pressed on the approval notice, or
\* Logout on the admin notice, the mentor login page (the children of
\* PublicMentorRoute) is eventually displayed, whether the session was
\* carried by the localStorage token or by the cookie.
C27_NoticeButtonsLeadToLogin ==
  (leaving # "none") ~> (PublicRenders = "children")

\* C21: whenever the filtered job list is not empty, the per-day series of
\* getJobsPerDayData has an entry for today whose applications count is the
\* number of filtered jobs applied today, under each of the filters 'all',
\* '30days' and '7days'.
C21_SeriesHasToday ==
  (jobStats.pc = "rendered" /\ Len(FilteredJobs) > 0) =>
    \E i \in 1..Len(jobStats.jobsPerDay) :
      /\ jobStats.jobsPerDay[i].date = DayOf(jobStats.now)
      /\ jobStats.jobsPerDay[i].applications =
           CountOn(FilteredJobs, DayOf(jobStats.now))

\* C26: calculateStreakData ends its loop for every job list and every
\* goalPerDay, zero and negative ones included, and its currentStreak is at
\* most the number of distinct days that have filtered jobs plus one: the
\* loop never counts further than that.
C26_StreakIsBounded ==
  jobStats.currentStreak <= Cardinality(JobDays(FilteredJobs)) + 1

====
